---- MODULE Spec2Model ----
(***************************************************************************)
(* A model of the IMG-TO-PDF pipeline.  A run goes through one entry       *)
(* point, chosen in the initial state:                                     *)
(*                                                                         *)
(*  "downloader"  utils/image_downloader.py: batch_download, the           *)
(*                download_multiple call of each batch and the download()  *)
(*                tasks it creates, which interleave at their awaits.      *)
(*  "download_multiple"  utils/image_downloader.py: download_multiple       *)
(*                called by itself, with or without a progress callback.   *)
(*  "download"    utils/image_downloader.py: one call of download(), with   *)
(*                or without output_path, on a URL with or without a       *)
(*                basename, the response with or without a                 *)
(*                Content-Disposition file name and of any content type.   *)
(*  "main"        main.py: process_csv, one process_document task per CSV  *)
(*                row, download_multipages and download_file, against a    *)
(*                server whose answer for every page is fixed in the       *)
(*                initial state; then the results loop, the error report   *)
(*                and, for the runs with convert_to_pdf, the conversion of *)
(*                each document, converter.close() and the return.         *)
(*  "write_error_log"  main.py: write_error_log called by itself.          *)
(*  "converter"   utils/image_to_pdf.py: convert_single_image (called      *)
(*                again on the same paths), convert_multiple_images and    *)
(*                batch_convert on lists of files that are missing, of an  *)
(*                unsupported extension, undecodable or valid; close()     *)
(*                before a call or between two.                            *)
(*  "process_csv_and_download"  utils/csv_url_processor.py: the directories, *)
(*                process_csv_file, the batch download and the conversion  *)
(*                of what was downloaded, the downloader and the converter *)
(*                answering as they can.                                   *)
(*                                                                         *)
(* An action is the code between two awaits of one coroutine.              *)
(***************************************************************************)
EXTENDS Integers, Sequences, FiniteSets, TLC

\* ------------------------------------------------------------------ bounds
MaxUrls == 4
MaxBatch == 3
MaxConc == 2
\* the URLs given to download_multiple called by itself
MaxDmUrls == 3
MaxDocs == 2
\* the rows beyond the ones process_csv resolves at once
MaxWaiting == 2
\* the pages probed per document: in a run of one row, of several rows
MaxPages == 4
MaxPagesCsv == 2
\* the images given to convert_multiple_images, to batch_convert
MaxImages == 3
MaxBatchImages == 3
\* batch_convert's batch_size
MaxCvBatch == 2
\* the calls of convert_single_image on the same pair of paths
MaxRuns == 2
\* the rows with a PREVIEW_URL in the CSV given to process_csv_and_download
MaxCsvUrls == 2

\* --------------------------------------------------------------- constants
\* aiohttp's raise_for_status raises for every status from 400 on
HTTP_ERROR_FLOOR == 400
\* download_file: `if response.status == 200`
HTTP_OK == 200
\* process_csv: asyncio.Semaphore(10)
DocLimit == 10
\* AsyncImageToPdfConverter.__init__: max_workers
MAX_WORKERS == 8

None == "None"
\* the result slot of a task that has not finished
Pending == "Pending"
\* the result slot of a task that ended with an exception
Raised == "Raised"

VARIABLES
    entry,                      \* the entry point this run went through
    \* ---- AsyncImageDownloader and its caller's arguments
    urls,                       \* batch_download(urls, ...)
    batch_size,                 \* batch_download(..., batch_size)
    max_concurrent_downloads,   \* self.max_concurrent_downloads
    semaphore,                  \* self.semaphore: [created, value]
    bd_pc,                      \* where batch_download stands
    i,                          \* batch_download's loop index
    batch_count,                \* batch_download's batch_count
    all_downloaded,             \* batch_download's all_downloaded
    tasks,                      \* every task created by download_multiple
    downloaded_paths,           \* download_multiple's downloaded_paths
    completedQ,                 \* as_completed: finished tasks not yet awaited
    completed,                  \* iterations of the as_completed loop so far
    batches,                    \* history: the batch_urls of every batch run
    progress_callback,          \* download_multiple(..., progress_callback)
    progress,                   \* history: the counts batch_download's callback logged
    output_path,                \* download(url, output_path)
    headers                     \* the headers of the server's responses

varsDl == <<urls, batch_size, max_concurrent_downloads, semaphore, bd_pc, i,
            batch_count, all_downloaded, tasks, downloaded_paths, completedQ,
            completed, batches, progress_callback, progress, output_path, headers>>

\* what no step of a download changes
varsCall == <<output_path, headers>>

VARIABLES
    \* ---- main.py: process_csv and the document tasks it creates
    file_data,                  \* process_csv's file_data: rows (url, filename)
    max_pages,                  \* process_csv(..., max_pages)
    server,                     \* what the server answers for each page of each row
    pc_main,                    \* where process_csv stands
    sem_value,                  \* free permits of process_csv's semaphore
    docs,                       \* one process_document task per row
    all_pages,                  \* process_csv's all_pages
    all_errors,                 \* process_csv's all_errors
    report,                     \* the error report file
    fetchLog,                   \* history: the download_file calls made for each row
    csv_readable,               \* open(csv_path) and the reading of its rows go through
    keep_downloads,             \* process_csv(..., keep_downloads)
    overtaken                   \* history: a task ended while that of an earlier row ran

varsMain == <<file_data, max_pages, server, pc_main, sem_value, docs, all_pages,
              all_errors, report, fetchLog, csv_readable, keep_downloads, overtaken>>

VARIABLES
    \* ---- main.py: process_csv from the download statistics on
    convert_to_pdf,             \* process_csv(..., convert_to_pdf)
    converter,                  \* the AsyncImageToPdfConverter of process_csv
    conv_todo,                  \* the keys of all_pages.items() not yet converted
    conversion_results,         \* process_csv's conversion_results
    conversion_success,         \* process_csv's conversion_success
    pdfs,                       \* the documents whose PDF is in pdf_dir
    exc,                        \* the exception process_csv is leaving with, "" if none
    ret,                        \* what process_csv returned
    pdf_dir,                    \* os.makedirs(pdf_dir): not called, made or failed
    downloads                   \* the downloads directory: present or removed

varsPdf == <<convert_to_pdf, converter, conv_todo, conversion_results,
             conversion_success, pdfs, exc, ret, pdf_dir, downloads>>

VARIABLES
    \* ---- utils/image_to_pdf.py: AsyncImageToPdfConverter and its caller
    op,                         \* the method called: single, multiple, batch
    image_paths,                \* the files at the paths given to the call
    cv_batch_size,              \* batch_convert(..., batch_size)
    out,                        \* the output directory: [dir_exists, writable]
    out_files,                  \* the PDF at each output path
    cv_semaphore,               \* self.semaphore
    cv_tasks,                   \* the conversion calls made
    cv_pc,                      \* where the method called stands
    cv_i,                       \* batch_convert's batch_idx
    success_count,              \* batch_convert's success_count
    cv_ret,                     \* what the method returned
    verdicts,                   \* history: the verdicts of the successive calls
    cv_closed                   \* close() was called: self.executor is shut down

varsCv == <<op, image_paths, cv_batch_size, out, out_files, cv_semaphore, cv_tasks,
            cv_pc, cv_i, success_count, cv_ret, verdicts, cv_closed>>

VARIABLES
    \* ---- utils/csv_url_processor.py: process_csv_and_download
    pcd_args,                   \* the call: the CSV, the directories, combine, batch_size
    pcd_pc,                     \* where process_csv_and_download stands
    downloaded_files,           \* what batch_download returned
    converter_calls,            \* history: the calls made on the converter
    pcd_ret                     \* what process_csv_and_download returned

varsPcd == <<pcd_args, pcd_pc, downloaded_files, converter_calls, pcd_ret>>

\* what the conversion phase of process_csv leaves alone
varsFetch == <<file_data, max_pages, server, sem_value, docs, all_pages, all_errors,
               fetchLog, csv_readable, keep_downloads, overtaken>>

vars == <<entry, varsDl, varsMain, varsPdf, varsCv, varsPcd>>

\* ------------------------------------------------------- helper operators
Min(a, b) == IF a < b THEN a ELSE b

\* Python's urls[lo:hi] for 0 <= lo; positions are 0-based, hi is exclusive
Slice(s, lo, hi) ==
    [k \in 1..(IF Min(hi, Len(s)) > lo THEN Min(hi, Len(s)) - lo ELSE 0) |-> s[lo + k]]

\* A file name is [stem, ext]: ext is what follows its last dot, dot included,
\* and is "" for a name without dot; the empty name is ["", ""].
NameString(name) == name.stem \o name.ext
NoName == [stem |-> "", ext |-> ""]

\* the URLs without a usable basename: http://host/docs/ has none and
\* http://host/view has one without extension; URL u >= 1 is
\* http://host/img<u>.png
DirUrl == 0
ViewUrl == -1

\* _extract_filename_from_url(url): os.path.basename of the path of the URL
UrlName(u) ==
    CASE u = DirUrl -> NoName
      [] u = ViewUrl -> [stem |-> "view", ext |-> ""]
      [] OTHER -> [stem |-> "img" \o ToString(u), ext |-> ".png"]
UrlBasename(u) == NameString(UrlName(u))

\* the Content-Disposition headers of the responses: none, one without file
\* name, one with a file name with or without extension
Dispositions ==
    {None, "inline", "attachment; filename=\"scan.pdf\"", "attachment; filename=report"}

\* _extract_filename_from_headers(headers): the name matched by
\* filename="?([^";]+)"?, as a sequence of one, or the empty sequence for None
ExtractFilenameFromHeaders(hs) ==
    CASE hs.disposition = "attachment; filename=\"scan.pdf\"" ->
            <<[stem |-> "scan", ext |-> ".pdf"]>>
      [] hs.disposition = "attachment; filename=report" ->
            <<[stem |-> "report", ext |-> ""]>>
      [] OTHER -> <<>>

\* the Content-Type headers of the responses; "" when there is none
ContentTypes == {"image/png", "Image/X-Icon; q=1", "application/pdf", "text/html", ""}

\* content_type.split(';')[0].strip().lower()
NormalType(content_type) ==
    IF content_type = "Image/X-Icon; q=1" THEN "image/x-icon" ELSE content_type

\* CONTENT_TYPE_MAP, on the types that occur
CONTENT_TYPE_MAP ==
    [t \in {"image/png", "application/pdf"} |->
        IF t = "image/png" THEN ".png" ELSE ".pdf"]

\* content_type.startswith('image/')
StartsWithImage(content_type) == content_type \in {"image/png", "image/x-icon"}

\* _validate_image_content_type(content_type)
ValidateImageContentType(content_type) ==
    LET t == NormalType(content_type) IN
    StartsWithImage(t) \/ t = "application/pdf" \/ t \in DOMAIN CONTENT_TYPE_MAP

\* _get_extension_from_content_type(content_type)
GetExtensionFromContentType(content_type) ==
    LET t == NormalType(content_type) IN
    IF t \in DOMAIN CONTENT_TYPE_MAP THEN CONTENT_TYPE_MAP[t] ELSE ".img"

\* f"downloaded_file_{abs(hash(url))}{ext}"
HashName(u, ext) == [stem |-> "downloaded_file_" \o ToString(u), ext |-> ext]

\* the responses of the runs of several downloads: a PNG image, no
\* Content-Disposition
PlainImage == [content_type |-> "image/png", disposition |-> None]
Headers == [content_type : ContentTypes, disposition : Dispositions]

\* download(): the file name when no output_path is given: that of the
\* headers, else that of the URL; replaced, when empty or without dot, by one
\* made of the hash of the URL and the extension of the content type
Filename(u, hs) ==
    LET named == ExtractFilenameFromHeaders(hs)
        filename == IF named # <<>> THEN named[1] ELSE UrlName(u)
    IN IF filename = NoName \/ filename.ext = ""
       THEN HashName(u, GetExtensionFromContentType(hs.content_type))
       ELSE filename

\* download(): final_path, under the target directory when no output_path is
\* given
FinalPathFor(path, u, hs) ==
    IF path # None THEN path ELSE "out/" \o NameString(Filename(u, hs))

\* final_path of a download without output_path whose response is a plain image
FinalPath(u) == FinalPathFor(None, u, PlainImage)

\* the validation of the content type fails the download: never, an
\* unrecognised type is logged as a warning
RejectsContent_WhenInvalid(valid) == ~valid
RejectsContent(valid) == FALSE

\* ---------------------------------------------- AsyncImageDownloader.download
\* the steps of download() at which an exception can start
DownloadSteps == {"get", "raise_for_status", "ensure_directory", "write"}

\* the steps that lie inside download()'s try block
DownloadTrySteps == DownloadSteps

\* what download() hands to its awaiter when `step` raises
DownloadOnError(step) == IF step \in DownloadTrySteps THEN None ELSE Raised

\* asyncio.Semaphore.acquire proceeds only while a permit is free
CanAcquire_NoLimit(sem) == TRUE
CanAcquire(sem) == sem.value > 0

\* `async with self.semaphore` leaves the block: the permit goes back whether
\* the block returned or raised
ExitSection_LeakOnError(sem, failed) ==
    IF failed THEN sem ELSE [sem EXCEPT !.value = @ + 1]
ExitSection(sem, failed) == [sem EXCEPT !.value = @ + 1]

\* response.raise_for_status()
RaisesForStatus(status) == status >= HTTP_ERROR_FLOOR

\* the statuses the server may answer with
Statuses == {200, 203, 304, 404, 500}

\* the entry points that run download() tasks
DlEntries == {"downloader", "download_multiple", "download"}

\* a task ends: its result is set, its locals are gone, its permit released,
\* as_completed told
Finish(t, result, failed, warned) ==
    /\ tasks' = [tasks EXCEPT ![t] = [@ EXCEPT !.pc = "done", !.holds = FALSE,
                                               !.result = result,
                                               !.warned = warned,
                                               !.final_path = None]]
    /\ semaphore' = ExitSection(semaphore, failed)
    /\ completedQ' = Append(completedQ, t)

\* download() up to its first await: the semaphore is made if there is none
\* yet, a permit taken, the request issued
Acquire(t) ==
    /\ entry \in DlEntries
    /\ tasks[t].pc = "created"
    /\ LET sem == IF semaphore.created THEN semaphore
                  ELSE [created |-> TRUE, value |-> max_concurrent_downloads]
       IN /\ CanAcquire(sem)
          /\ semaphore' = [sem EXCEPT !.value = @ - 1]
    /\ tasks' = [tasks EXCEPT ![t] = [@ EXCEPT !.pc = "request", !.holds = TRUE]]
    /\ UNCHANGED <<entry, varsPcd, progress_callback, progress, varsCall, varsCv, varsMain, varsPdf, urls, batch_size, max_concurrent_downloads, bd_pc, i, batch_count,
                   all_downloaded, downloaded_paths, completedQ, completed, batches>>

\* the request fails (connection error, timeout): caught, download() returns None
RespondError(t) ==
    /\ entry \in DlEntries
    /\ tasks[t].pc = "request"
    /\ Finish(t, DownloadOnError("get"), TRUE, FALSE)
    /\ UNCHANGED <<entry, varsPcd, progress_callback, progress, varsCall, varsCv, varsMain, varsPdf, urls, batch_size, max_concurrent_downloads, bd_pc, i, batch_count,
                   all_downloaded, downloaded_paths, completed, batches>>

\* the response head arrives: raise_for_status, the validation of the content
\* type, which logs its warning, and final_path; then on to the body
Respond(t) ==
    /\ entry \in DlEntries
    /\ tasks[t].pc = "request"
    /\ \E status \in Statuses :
        LET valid == ValidateImageContentType(headers.content_type) IN
        IF RaisesForStatus(status)
        THEN Finish(t, DownloadOnError("raise_for_status"), TRUE, FALSE)
        ELSE IF RejectsContent(valid)
        THEN Finish(t, None, TRUE, ~valid)
        ELSE /\ tasks' = [tasks EXCEPT ![t] =
                            [@ EXCEPT !.pc = "write", !.warned = ~valid,
                                      !.final_path =
                                          FinalPathFor(output_path, tasks[t].url,
                                                       headers)]]
             /\ UNCHANGED <<semaphore, completedQ>>
    /\ UNCHANGED <<entry, varsPcd, progress_callback, progress, varsCall, varsCv, varsMain, varsPdf, urls, batch_size, max_concurrent_downloads, bd_pc, i, batch_count,
                   all_downloaded, downloaded_paths, completed, batches>>

\* the directory is made and the body streamed to final_path
Write(t) ==
    /\ entry \in DlEntries
    /\ tasks[t].pc = "write"
    /\ \E outcome \in {"ok", "ensure_directory", "write"} :
        IF outcome = "ok"
        THEN Finish(t, tasks[t].final_path, FALSE, tasks[t].warned)
        ELSE Finish(t, DownloadOnError(outcome), TRUE, tasks[t].warned)
    /\ UNCHANGED <<entry, varsPcd, progress_callback, progress, varsCall, varsCv, varsMain, varsPdf, urls, batch_size, max_concurrent_downloads, bd_pc, i, batch_count,
                   all_downloaded, downloaded_paths, completed, batches>>

\* --------------------------------------- AsyncImageDownloader.batch_download
\* batch_count = (total_urls + batch_size - 1) // batch_size
BatchCount_Floor(n, b) == n \div b
BatchCount(n, b) == (n + b - 1) \div b

\* batch_urls = urls[batch_start:batch_end]
BatchUrls_EndInclusive(us, b, k) == Slice(us, k * b, Min(k * b + b + 1, Len(us)))
BatchUrls(us, b, k) == Slice(us, k * b, Min(k * b + b, Len(us)))

\* batch_download up to its loop
BatchStart ==
    /\ entry = "downloader"
    /\ bd_pc = "start"
    /\ IF urls = <<>>
       THEN /\ bd_pc' = "done"
            /\ UNCHANGED batch_count
       ELSE /\ bd_pc' = "loop"
            /\ batch_count' = BatchCount(Len(urls), batch_size)
    /\ UNCHANGED <<entry, varsPcd, progress_callback, progress, varsCall, varsCv, varsMain, varsPdf, urls, batch_size, max_concurrent_downloads, semaphore, i,
                   all_downloaded, tasks, downloaded_paths, completedQ, completed,
                   batches>>

\* the tasks download_multiple creates for its urls, one each, none started
NewTasks(us, k) ==
    [j \in 1..Len(us) |->
        [url |-> us[j], batch |-> k, pc |-> "created", holds |-> FALSE,
         result |-> Pending, warned |-> FALSE, final_path |-> None]]

\* batch_callback, the callback batch_download hands to download_multiple: it
\* logs (batch_index * batch_size + completed) / total_urls * 100
BatchCallback == "batch_callback"

\* the callbacks a caller of download_multiple hands to it: none, one that
\* returns, one that raises
ProgressCallbacks == {None, "returns", "raises"}

\* the count batch_download's progress_callback logs:
\* batch_index * batch_size + completed
OverallCompleted_BatchLocal(batch_index, size, done) == done
OverallCompleted(batch_index, size, done) == batch_index * size + done

\* `if progress_callback: progress_callback(i + 1, len(urls))` raises
CallbackRaises(callback, total_urls) ==
    \/ callback = "raises"
    \/ callback = BatchCallback /\ total_urls = 0

\* one turn of batch_download's loop: slice the batch and enter
\* download_multiple, which creates the semaphore if need be and one task per URL
BatchNext ==
    /\ entry = "downloader"
    /\ bd_pc = "loop"
    /\ i < batch_count
    /\ LET batch_urls == BatchUrls(urls, batch_size, i) IN
        /\ batches' = Append(batches, batch_urls)
        /\ IF batch_urls = <<>>
           THEN \* download_multiple returns [] and the batch's success rate
                \* divides by len(batch_urls) = 0
                /\ bd_pc' = "raised"
                /\ UNCHANGED <<semaphore, tasks, i, downloaded_paths, completed>>
           ELSE /\ semaphore' = IF semaphore.created THEN semaphore
                                ELSE [created |-> TRUE,
                                      value |-> max_concurrent_downloads]
                /\ tasks' = tasks \o NewTasks(batch_urls, i)
                /\ downloaded_paths' = <<>>
                /\ completed' = 0
                /\ bd_pc' = "await"
                /\ UNCHANGED i
    /\ progress_callback' = BatchCallback
    /\ UNCHANGED <<entry, varsPcd, progress, varsCall, varsCv, varsMain, varsPdf, urls, batch_size, max_concurrent_downloads, batch_count,
                   all_downloaded, completedQ>>

\* the loop is over: return all_downloaded
BatchReturn ==
    /\ entry = "downloader"
    /\ bd_pc = "loop"
    /\ i >= batch_count
    /\ bd_pc' = "done"
    /\ UNCHANGED <<entry, varsPcd, progress_callback, progress, varsCall, varsCv, varsMain, varsPdf, urls, batch_size, max_concurrent_downloads, semaphore, i,
                   batch_count, all_downloaded, tasks, downloaded_paths, completedQ,
                   completed, batches>>

\* ------------------------------------ AsyncImageDownloader.download_multiple
\* download_multiple leaves its as_completed loop after `n` of `total` results
LoopOver_FirstResult(n, total) == n >= 1
LoopOver(n, total) == n >= total

\* download_multiple keeps a result: `if path:`
KeepsPath_Always(path) == TRUE
KeepsPath(path) == path # None

\* the failure records a batch run hands back: download_multiple drops a None
\* result and batch_download returns all_downloaded alone
BatchFailures == <<>>

\* one turn of the as_completed loop: await the next finished task, keep its
\* path if it has one; after the last turn return to batch_download, which
\* extends all_downloaded
Collect ==
    /\ entry \in DlEntries
    /\ bd_pc = "await"
    /\ completedQ # <<>>
    /\ LET t == Head(completedQ)
           path == tasks[t].result
           kept == IF KeepsPath(path) THEN Append(downloaded_paths, path)
                   ELSE downloaded_paths
           total == IF entry = "downloader" THEN Len(batches[Len(batches)])
                    ELSE Len(urls)
       IN
        /\ completedQ' = Tail(completedQ)
        /\ IF path = Raised
           THEN /\ bd_pc' = "raised"
                /\ UNCHANGED <<downloaded_paths, completed, all_downloaded, i,
                               progress>>
           ELSE IF progress_callback # None
                    /\ CallbackRaises(progress_callback, Len(urls))
           THEN \* the exception of the callback leaves download_multiple
                /\ bd_pc' = "callback_raised"
                /\ downloaded_paths' = kept
                /\ UNCHANGED <<completed, all_downloaded, i, progress>>
           ELSE /\ completed' = completed + 1
                /\ downloaded_paths' = kept
                /\ progress' = IF progress_callback = BatchCallback
                               THEN Append(progress,
                                           OverallCompleted(i, batch_size,
                                                            completed + 1))
                               ELSE progress
                /\ IF ~LoopOver(completed + 1, total)
                   THEN UNCHANGED <<all_downloaded, i, bd_pc>>
                   ELSE IF entry = "downloader"
                   THEN /\ all_downloaded' = all_downloaded \o kept
                        /\ i' = i + 1
                        /\ bd_pc' = "loop"
                   ELSE /\ bd_pc' = "returned"
                        /\ UNCHANGED <<all_downloaded, i>>
    /\ UNCHANGED <<entry, varsPcd, progress_callback, varsCall, varsCv, varsMain, varsPdf, urls, batch_size, max_concurrent_downloads, semaphore,
                   batch_count, tasks, batches>>

\* download_multiple called by itself, up to its as_completed loop: `if not
\* urls: return []`, the semaphore if need be, one task per URL
DownloadMultiple ==
    /\ entry = "download_multiple"
    /\ bd_pc = "call"
    /\ IF urls = <<>>
       THEN /\ bd_pc' = "returned"
            /\ UNCHANGED <<semaphore, tasks>>
       ELSE /\ semaphore' = IF semaphore.created THEN semaphore
                            ELSE [created |-> TRUE,
                                  value |-> max_concurrent_downloads]
            /\ tasks' = NewTasks(urls, 0)
            /\ bd_pc' = "await"
    /\ UNCHANGED <<entry, varsPcd, progress_callback, progress, varsCall, varsCv, varsMain, varsPdf, urls, batch_size, max_concurrent_downloads, i,
                   batch_count, all_downloaded, downloaded_paths, completedQ,
                   completed, batches>>

\* ===================================================================== main.py
\* the directory process_csv downloads into (output_dir)
OutputDir == "downloads"

\* the steps of download_file at which an exception can start
FileSteps == {"makedirs", "get", "write"}

\* the steps that lie inside download_file's try block
FileTrySteps_MakedirsOutside == FileSteps \ {"makedirs"}
FileTrySteps == FileSteps

\* what one request meets: an exception at a step, or a response status
StatusAnswer(s) == [exc |-> "", status |-> s]
ExcAnswer(step) == [exc |-> step, status |-> 0]
MainStatuses == {HTTP_OK, 203, 404}
Answers == {StatusAnswer(s) : s \in MainStatuses} \cup {ExcAnswer(st) : st \in FileSteps}

\* os.path.splitext(original_filename.strip('"'))[0]
BaseName(filename) == filename.base

\* download_file: the file name of page page_num of a document
PageFilename_NoSuffix(base_name, page_num) == base_name \o ".png"
PageFilename(base_name, page_num) ==
    IF page_num > 1
    THEN base_name \o "_page" \o ToString(page_num) \o ".png"
    ELSE base_name \o ".png"

\* output_path = os.path.join(output_dir, filename)
OutputPath(original_filename, page_num) ==
    OutputDir \o "/" \o PageFilename(BaseName(original_filename), page_num)

\* download_file accepts the response
StatusAccepted(status) == status = HTTP_OK

\* the failure record download_file returns:
\* (original_filename, url, error_msg, status or str(e), page_num);
\* error_msg repeats the url and the status and is left out
FailureRecord(original_filename, url, status, detail, page_num) ==
    [filename |-> original_filename, url |-> url, status |-> status,
     detail |-> detail, page_num |-> page_num]

\* download_file(url, output_dir, original_filename, page_num) meeting `answer`:
\* the pair (path or None, failure record or None), the record as a sequence of
\* at most one element; result Raised when the exception leaves download_file
DownloadFile(url, original_filename, page_num, answer) ==
    IF answer.exc # ""
    THEN IF answer.exc \in FileTrySteps
         THEN [result |-> None,
               error |-> <<FailureRecord(original_filename, url, 0, answer.exc,
                                         page_num)>>]
         ELSE [result |-> Raised, error |-> <<>>]
    ELSE IF StatusAccepted(answer.status)
         THEN [result |-> OutputPath(original_filename, page_num), error |-> <<>>]
         ELSE [result |-> None,
               error |-> <<FailureRecord(original_filename, url, answer.status, "",
                                         page_num)>>]

\* 'previewFileIndex=' in url
HasPageIndex_Always(url) == TRUE
HasPageIndex(url) == url.indexed

\* re.sub(r'previewFileIndex=\d+', f'previewFileIndex={page_num}', url)
PageUrl(url, page_num) == [url EXCEPT !.index = page_num]

\* what the server answers for url: a URL without page index is one resource
\* and a page past the ones the server has is not found
AnswerFor(url) ==
    LET p == IF HasPageIndex(url) THEN url.index ELSE 1 IN
    IF p \in DOMAIN server[url.row] THEN server[url.row][p] ELSE StatusAnswer(404)

\* download_multipages keeps a result: `if result:`
KeepsPage_Always(result) == TRUE
KeepsPage(result) == result # None

\* download_multipages leaves its loop on an error: `if error: ... break`
StopsProbing_Never(error) == FALSE
StopsProbing(error) == error # <<>>

\* range(1, max_pages + 1) has a page after page_num
HasNextPage(page_num, limit) == page_num < limit

\* process_document ends: `async with semaphore` gives the permit back
DocEnd(d, pc, pages, errors) ==
    /\ docs' = [docs EXCEPT ![d] = [@ EXCEPT !.pc = pc, !.pages = pages,
                                             !.errors = errors]]
    /\ sem_value' = sem_value + 1
    /\ overtaken' = (overtaken \/ \E e \in DOMAIN docs :
                                    e < d /\ docs[e].pc \in {"probing", "single"})

\* `async with semaphore` lets a task in
DocCanStart_NoLimit(value) == TRUE
DocCanStart(value) == value > 0

\* process_document up to the first request of download_multipages; the event
\* loop runs the tasks in the order they were created, and the semaphore wakes
\* the tasks that wait for it in the order they came
DocStart(d) ==
    /\ entry = "main"
    /\ pc_main = "gather"
    /\ docs[d].pc = "created"
    /\ \A e \in 1..(d - 1) : docs[e].pc # "created"
    /\ DocCanStart(sem_value)
    /\ sem_value' = sem_value - 1
    /\ docs' = [docs EXCEPT ![d] =
                  [@ EXCEPT !.pc = IF HasPageIndex(file_data[d].url)
                                   THEN "probing" ELSE "single",
                            !.page_num = 1]]
    /\ UNCHANGED <<entry, varsPcd, csv_readable, keep_downloads, overtaken, varsCv, varsDl, varsPdf, file_data, max_pages, server, pc_main, all_pages,
                   all_errors, report, fetchLog>>

\* download_multipages, URL without page index: one download_file, then return
FetchSingle(d) ==
    /\ entry = "main"
    /\ docs[d].pc = "single"
    /\ LET url == file_data[d].url
           r == DownloadFile(url, file_data[d].filename, 1, AnswerFor(url))
       IN
        /\ fetchLog' = [fetchLog EXCEPT ![d] =
                          Append(@, [page |-> 1, ok |-> r.result \notin {None, Raised}])]
        /\ IF r.result = Raised
           THEN DocEnd(d, "raised", docs[d].pages, docs[d].errors)
           ELSE DocEnd(d, "done",
                       IF KeepsPage(r.result) THEN Append(docs[d].pages, r.result)
                       ELSE docs[d].pages,
                       docs[d].errors \o r.error)
    /\ UNCHANGED <<entry, varsPcd, csv_readable, keep_downloads, varsCv, varsDl, varsPdf, file_data, max_pages, server, pc_main, all_pages,
                   all_errors, report>>

\* download_multipages, one turn of the probing loop: download_file for page
\* page_num, then keep the page, or record the error and stop
FetchPage(d) ==
    /\ entry = "main"
    /\ docs[d].pc = "probing"
    /\ LET page_num == docs[d].page_num
           page_url == PageUrl(file_data[d].url, page_num)
           r == DownloadFile(page_url, file_data[d].filename, page_num,
                             AnswerFor(page_url))
           pages == IF KeepsPage(r.result) THEN Append(docs[d].pages, r.result)
                    ELSE docs[d].pages
           errors == docs[d].errors \o r.error
       IN
        /\ fetchLog' = [fetchLog EXCEPT ![d] =
                          Append(@, [page |-> page_num,
                                     ok |-> r.result \notin {None, Raised}])]
        /\ IF r.result = Raised
           THEN DocEnd(d, "raised", docs[d].pages, docs[d].errors)
           ELSE IF StopsProbing(r.error) \/ ~HasNextPage(page_num, max_pages)
           THEN DocEnd(d, "done", pages, errors)
           ELSE /\ docs' = [docs EXCEPT ![d] = [@ EXCEPT !.page_num = page_num + 1,
                                                         !.pages = pages,
                                                         !.errors = errors]]
                /\ UNCHANGED <<sem_value, overtaken>>
    /\ UNCHANGED <<entry, varsPcd, csv_readable, keep_downloads, varsCv, varsDl, varsPdf, file_data, max_pages, server, pc_main, all_pages,
                   all_errors, report>>

\* ------------------------------------------------------- main.py: process_csv
\* all_pages[key] = val
DictPut_Extend(dict, key, val) ==
    [k \in DOMAIN dict \cup {key} |->
        IF k = key THEN (IF key \in DOMAIN dict THEN dict[key] ELSE <<>>) \o val
        ELSE dict[k]]
DictPut_KeepFirst(dict, key, val) ==
    [k \in DOMAIN dict \cup {key} |-> IF k \in DOMAIN dict THEN dict[k] ELSE val]
DictPut(dict, key, val) ==
    [k \in DOMAIN dict \cup {key} |-> IF k = key THEN val ELSE dict[k]]

\* the results loop stores the pages of a document: `if pages:`
StoresPages_Always(pages) == TRUE
StoresPages(pages) == pages # <<>>

\* the results loop of process_csv over results[k..], filling all_pages
RECURSIVE CollectPages(_, _, _)
CollectPages(results, k, acc) ==
    IF k > Len(results) THEN acc
    ELSE CollectPages(results, k + 1,
                      IF StoresPages(results[k].pages)
                      THEN DictPut(acc, BaseName(results[k].filename), results[k].pages)
                      ELSE acc)

\* the results loop of process_csv over results[k..], filling all_errors
RECURSIVE CollectErrors_Prepend(_, _, _)
CollectErrors_Prepend(results, k, acc) ==
    IF k > Len(results) THEN acc
    ELSE CollectErrors_Prepend(results, k + 1, results[k].errors \o acc)
RECURSIVE CollectErrors(_, _, _)
CollectErrors(results, k, acc) ==
    IF k > Len(results) THEN acc
    ELSE CollectErrors(results, k + 1, acc \o results[k].errors)

\* the report file before the run
\* `old`: it still has the text of an earlier run; `appended`: the blocks the
\* conversion phase appended to it
Absent == [exists |-> FALSE, entries |-> <<>>, old |-> FALSE, appended |-> 0]
OldReport == [exists |-> TRUE, entries |-> <<>>, old |-> TRUE, appended |-> 0]

\* write_error_log(errors, log_file) on the report file `file`
WriteErrorLog_AlwaysWrites(errors, file) ==
    [exists |-> TRUE, entries |-> errors, old |-> FALSE, appended |-> 0]
WriteErrorLog(errors, file) ==
    IF errors = <<>> THEN file
    ELSE [exists |-> TRUE, entries |-> errors, old |-> FALSE, appended |-> 0]

\* a call of write_error_log(errors, log_file) by itself
FlushCall ==
    /\ entry = "write_error_log"
    /\ pc_main = "flush"
    /\ report' = WriteErrorLog(all_errors, report)
    /\ pc_main' = "flushed"
    /\ UNCHANGED <<entry, varsPcd, varsCv, varsDl, varsPdf, varsFetch>>

\* the rows of the CSV reach file_data: the read went through and found one
CsvRejected(readable, rows) == ~readable \/ rows = <<>>

\* process_csv from its call to `await asyncio.gather(*tasks)`: the CSV is
\* read, and `return False` when that raises or finds no row; else the
\* semaphore and one process_document task per row
ProcessStart ==
    /\ entry = "main"
    /\ pc_main = "start"
    /\ IF CsvRejected(csv_readable, file_data)
       THEN /\ ret' = FALSE
            /\ pc_main' = "rejected"
            /\ UNCHANGED <<sem_value, docs>>
       ELSE /\ sem_value' = DocLimit
            /\ docs' = [d \in 1..Len(file_data) |->
                          [pc |-> "created", page_num |-> 0, pages |-> <<>>,
                           errors |-> <<>>]]
            /\ pc_main' = "gather"
            /\ UNCHANGED ret
    /\ UNCHANGED <<entry, varsPcd, csv_readable, keep_downloads, overtaken, varsCv, varsDl, file_data, max_pages, server, all_pages, all_errors,
                   report, fetchLog, convert_to_pdf, converter, conv_todo,
                   conversion_results, conversion_success, pdfs, exc, pdf_dir,
                   downloads>>

\* asyncio.gather is over: every task has returned, or one has raised
GatherOver_FirstDone == \E d \in DOMAIN docs : docs[d].pc \in {"done", "raised"}
GatherOver ==
    (\A d \in DOMAIN docs : docs[d].pc = "done")
        \/ (\E d \in DOMAIN docs : docs[d].pc = "raised")

\* gather returns: the results loop, then the error report
Gather ==
    /\ entry = "main"
    /\ pc_main = "gather"
    /\ GatherOver
    /\ IF \E d \in DOMAIN docs : docs[d].pc = "raised"
       THEN /\ pc_main' = "raised"
            /\ UNCHANGED <<all_pages, all_errors, report>>
       ELSE LET results == [d \in DOMAIN docs |->
                              [filename |-> file_data[d].filename,
                               pages |-> docs[d].pages, errors |-> docs[d].errors]]
                errs == CollectErrors(results, 1, <<>>)
            IN
             /\ all_pages' = CollectPages(results, 1, <<>>)
             /\ all_errors' = errs
             /\ report' = IF errs # <<>> THEN WriteErrorLog(errs, report) ELSE report
             /\ pc_main' = "downloaded"
    /\ UNCHANGED <<entry, varsPcd, csv_readable, keep_downloads, overtaken, varsCv, varsDl, varsPdf, file_data, max_pages, server, sem_value, docs,
                   fetchLog>>

\* ============================================== utils/image_to_pdf.py
\* A file is [exists, ext, content]: content is the mode of the image in it,
\* or "garbage" when it holds no image.  A PDF is [exists, pages, writes].
SUPPORTED_FORMATS == {".png", ".jpg", ".jpeg", ".tiff", ".bmp", ".webp"}

\* str.lower() on the extensions that occur
Lower(ext) ==
    CASE ext = ".PNG" -> ".png"
      [] ext = ".TIF" -> ".tif"
      [] ext = ".PDF" -> ".pdf"
      [] OTHER -> ext

\* _validate_image_path: the file exists and its extension is supported
ValidateImagePath_AnyFile(file) == TRUE
ValidateImagePath(file) == file.exists /\ Lower(file.ext) \in SUPPORTED_FORMATS

\* Image.open(image_path) and image.convert('RGB') go through
Decodes_Always(file) == TRUE
Decodes(file) == file.exists /\ file.content # "garbage"

\* _prepare_image(image_path) for the id-th image of a call: the RGB image, as
\* a sequence of one, or the empty sequence for None
PrepareImage(file, id) ==
    IF ~ValidateImagePath(file) THEN <<>>
    ELSE IF ~Decodes(file) THEN <<>>
    ELSE <<[src |-> id, mode |-> "RGB"]>>

\* no file at output_path
NoPdf == [exists |-> FALSE, pages |-> <<>>, writes |-> 0]

\* image.save(output_path, 'PDF', ...) with the file `old` at output_path: the
\* file is written anew whatever was there, or the save raises
Save_Exclusive(old, images, writable) ==
    IF writable /\ ~old.exists
    THEN [raised |-> FALSE,
          pdf |-> [exists |-> TRUE, pages |-> images, writes |-> old.writes + 1]]
    ELSE [raised |-> TRUE, pdf |-> old]
Save(old, images, writable) ==
    IF writable
    THEN [raised |-> FALSE,
          pdf |-> [exists |-> TRUE, pages |-> images, writes |-> old.writes + 1]]
    ELSE [raised |-> TRUE, pdf |-> old]

\* _convert_image_sync(image_path, output_path): the verdict and the file at
\* output_path afterwards
ConvertImageSync(file, id, old, writable) ==
    LET image == PrepareImage(file, id) IN
    IF image = <<>> THEN [ok |-> FALSE, pdf |-> old]
    ELSE LET saved == Save(old, image, writable) IN
         IF saved.raised THEN [ok |-> FALSE, pdf |-> old]
         ELSE [ok |-> TRUE, pdf |-> saved.pdf]

\* _convert_multiple_sync, the loop over image_paths[k..]: `images`
RECURSIVE PreparedImages(_, _)
PreparedImages(files, k) ==
    IF k > Len(files) THEN <<>>
    ELSE PrepareImage(files[k], k) \o PreparedImages(files, k + 1)

\* _convert_multiple_sync(image_paths, output_path)
ConvertMultipleSync(files, old, writable) ==
    LET images == PreparedImages(files, 1) IN
    IF images = <<>> THEN [ok |-> FALSE, pdf |-> old]
    ELSE LET saved == Save(old, images, writable) IN
         IF saved.raised THEN [ok |-> FALSE, pdf |-> old]
         ELSE [ok |-> TRUE, pdf |-> saved.pdf]

\* close(): executor.shutdown(wait=True) returns once no job is running
ShutdownReturns_NoWait(running) == TRUE
ShutdownReturns(running) == running = 0

\* --------------------------------- main.py: process_csv, the conversion phase
\* what a downloaded page file can hold: the path ends in .png, the content
\* is what the server sent
PageFiles ==
    {[exists |-> TRUE, ext |-> ".png", content |-> c] : c \in {"RGB", "L", "garbage"}}

\* the results of gather, as the results loop reads them
GatherResults ==
    [d \in DOMAIN docs |->
        [filename |-> file_data[d].filename, pages |-> docs[d].pages,
         errors |-> docs[d].errors]]

\* all_pages.items(): the keys in the order the results loop inserted them
RECURSIVE KeyOrder(_, _, _)
KeyOrder(results, k, acc) ==
    IF k > Len(results) THEN acc
    ELSE LET key == BaseName(results[k].filename) IN
         KeyOrder(results, k + 1,
                  IF StoresPages(results[k].pages)
                     /\ \A j \in DOMAIN acc : acc[j] # key
                  THEN Append(acc, key)
                  ELSE acc)

\* the call process_csv makes for a document: `if len(pages) == 1`
ConvertCallOf_AlwaysMultiple(pages) == "multiple"
ConvertCallOf(pages) == IF Len(pages) = 1 THEN "single" ELSE "multiple"

\* the verdicts the job of a conversion call can end with, over what the page
\* files hold and whether the PDF can be written
JobVerdicts(pages) ==
    {IF ConvertCallOf(pages) = "single"
     THEN ConvertImageSync(files[1], 1, NoPdf, writable).ok
     ELSE ConvertMultipleSync(files, NoPdf, writable).ok :
        files \in [1..Len(pages) -> PageFiles], writable \in BOOLEAN}

\* the except branch: open(error_log_file, 'a') and the block written
AppendConversionError(file) ==
    [file EXCEPT !.exists = TRUE, !.appended = @ + 1]

\* what process_csv adds to the report for a conversion that returned
\* `success`: nothing, a failure is printed only
ConversionFailureRecords(success) == <<>>

\* all(conversion_results) and len(conversion_results) > 0
AllSucceeded(results) ==
    /\ \A k \in DOMAIN results : results[k]
    /\ Len(results) > 0

\* from the results of gather to the first conversion call: the statistics,
\* the converter, os.makedirs(pdf_dir), which can raise into the except
\* branch, where the append to the report can raise in its turn
ConvertStart ==
    /\ entry = "main"
    /\ pc_main = "downloaded"
    /\ IF convert_to_pdf /\ DOMAIN all_pages # {}
       THEN /\ converter' = [converter EXCEPT !.created = TRUE]
            /\ \E made \in BOOLEAN : \E appended \in BOOLEAN :
                  IF made
                  THEN /\ appended
                       /\ pdf_dir' = "made"
                       /\ conv_todo' = KeyOrder(GatherResults, 1, <<>>)
                       /\ pc_main' = "converting"
                       /\ UNCHANGED <<report, exc>>
                  ELSE /\ pdf_dir' = "failed"
                       /\ report' = IF appended THEN AppendConversionError(report)
                                    ELSE report
                       /\ exc' = IF appended THEN "" ELSE "append"
                       /\ pc_main' = "finally"
                       /\ UNCHANGED conv_todo
       ELSE /\ pc_main' = "cleanup"
            /\ UNCHANGED <<converter, conv_todo, report, exc, pdf_dir>>
    /\ UNCHANGED <<entry, varsPcd, downloads, varsCv, varsDl, varsFetch, convert_to_pdf, conversion_results,
                   conversion_success, pdfs, ret>>

\* one turn of the loop over all_pages.items() up to the await of the
\* conversion call: the job is handed to the worker pool
ConvertCall ==
    /\ entry = "main"
    /\ pc_main = "converting"
    /\ conv_todo # <<>>
    /\ LET pages == all_pages[Head(conv_todo)] IN
       IF Len(pages) = 0
       THEN /\ conv_todo' = Tail(conv_todo)
            /\ UNCHANGED <<converter, pc_main>>
       ELSE /\ converter' =
                 [converter EXCEPT !.running = @ + 1,
                                   !.calls = Append(@, [key |-> Head(conv_todo),
                                                        op |-> ConvertCallOf(pages)])]
            /\ pc_main' = "awaiting"
            /\ UNCHANGED conv_todo
    /\ UNCHANGED <<entry, varsPcd, pdf_dir, downloads, varsCv, varsDl, varsFetch, report, convert_to_pdf,
                   conversion_results, conversion_success, pdfs, exc, ret>>

\* the job ends and the conversion call returns its verdict, which
\* process_csv appends to conversion_results
ConvertReturn ==
    /\ entry = "main"
    /\ pc_main = "awaiting"
    /\ \E success \in JobVerdicts(all_pages[Head(conv_todo)]) :
        /\ conversion_results' = Append(conversion_results, success)
        /\ pdfs' = IF success THEN pdfs \cup {Head(conv_todo)} ELSE pdfs
        /\ report' = [report EXCEPT !.entries = @ \o ConversionFailureRecords(success)]
    /\ converter' = [converter EXCEPT !.running = @ - 1]
    /\ conv_todo' = Tail(conv_todo)
    /\ pc_main' = "converting"
    /\ UNCHANGED <<entry, varsPcd, pdf_dir, downloads, varsCv, varsDl, varsFetch, convert_to_pdf, conversion_success,
                   exc, ret>>

\* process_csv is cancelled while it awaits a conversion call: CancelledError
\* is no Exception, so it passes the except branches and reaches `finally`
\* with the job still in the worker pool
CancelConversion ==
    /\ entry = "main"
    /\ pc_main = "awaiting"
    /\ exc' = "cancelled"
    /\ pc_main' = "finally"
    /\ UNCHANGED <<entry, varsPcd, pdf_dir, downloads, varsCv, varsDl, varsFetch, report, convert_to_pdf, converter,
                   conv_todo, conversion_results, conversion_success, pdfs, ret>>

\* the loop is over: conversion_success
ConvertEnd ==
    /\ entry = "main"
    /\ pc_main = "converting"
    /\ conv_todo = <<>>
    /\ conversion_success' = AllSucceeded(conversion_results)
    /\ pc_main' = "finally"
    /\ UNCHANGED <<entry, varsPcd, pdf_dir, downloads, varsCv, varsDl, varsFetch, report, convert_to_pdf, converter,
                   conv_todo, conversion_results, pdfs, exc, ret>>

\* finally: converter.close() is called and shuts the worker pool down
CloseCall ==
    /\ entry = "main"
    /\ pc_main = "finally"
    /\ converter' = [converter EXCEPT !.shutdown = TRUE, !.closes = @ + 1]
    /\ pc_main' = "closing"
    /\ UNCHANGED <<entry, varsPcd, pdf_dir, downloads, varsCv, varsDl, varsFetch, report, convert_to_pdf, conv_todo,
                   conversion_results, conversion_success, pdfs, exc, ret>>

\* a job left in the worker pool ends while close() waits
JobFinish ==
    /\ entry = "main"
    /\ pc_main = "closing"
    /\ converter.running > 0
    /\ \E success \in JobVerdicts(all_pages[Head(conv_todo)]) :
        pdfs' = IF success THEN pdfs \cup {Head(conv_todo)} ELSE pdfs
    /\ converter' = [converter EXCEPT !.running = @ - 1]
    /\ UNCHANGED <<entry, varsPcd, pdf_dir, downloads, varsCv, varsDl, varsFetch, report, pc_main, convert_to_pdf,
                   conv_todo, conversion_results, conversion_success, exc, ret>>

\* close() returns; process_csv goes on, or leaves with its exception
CloseReturn ==
    /\ entry = "main"
    /\ pc_main = "closing"
    /\ ShutdownReturns(converter.running)
    /\ converter' = [converter EXCEPT !.closed = TRUE]
    /\ IF exc = ""
       THEN pc_main' = "cleanup" /\ UNCHANGED ret
       ELSE pc_main' = "aborted" /\ ret' = Raised
    /\ UNCHANGED <<entry, varsPcd, pdf_dir, downloads, varsCv, varsDl, varsFetch, report, convert_to_pdf, conv_todo,
                   conversion_results, conversion_success, pdfs, exc>>

\* process_csv calls cleanup_downloads: `if conversion_success and not
\* keep_downloads`
CallsCleanup_WhateverTheVerdict(success, keep) == ~keep
CallsCleanup(success, keep) == success /\ ~keep

\* cleanup_downloads(download_dir, keep_downloads) on the directory `dir`:
\* shutil.rmtree removes it, or raises and the exception is printed
CleanupDownloads(dir, keep, removable) ==
    IF ~keep /\ dir = "present" /\ removable THEN "removed" ELSE dir

\* return success_docs > 0: conversion_success has no part in it
ReturnValue_OfConversion(success_docs, success) == success
ReturnValue(success_docs, success) == success_docs > 0

\* the last lines of process_csv: cleanup_downloads if called for, then
\* return success_docs > 0
Return ==
    /\ entry = "main"
    /\ pc_main = "cleanup"
    /\ \E removable \in BOOLEAN :
          downloads' = IF CallsCleanup(conversion_success, keep_downloads)
                       THEN CleanupDownloads(downloads, keep_downloads, removable)
                       ELSE downloads
    /\ ret' = ReturnValue(Cardinality(DOMAIN all_pages), conversion_success)
    /\ pc_main' = "returned"
    /\ UNCHANGED <<entry, varsPcd, pdf_dir, varsCv, varsDl, varsFetch, report, convert_to_pdf, converter,
                   conv_todo, conversion_results, conversion_success, pdfs, exc>>

\* ------------------------ utils/image_to_pdf.py: the calls of the converter
\* the output of the task of image `image`: convert_multiple_images writes
\* output 0, a conversion of image j writes output j
OutputOf(image) == image

\* a conversion call that has not started
NewTask(image, batch) == [image |-> image, batch |-> batch, pc |-> "created", ok |-> FALSE]

\* batch_convert: image_paths[i:i + batch_size] for the batch_idx-th i, as the
\* positions in image_paths
ImageBatch(batch_idx) ==
    {j \in DOMAIN image_paths :
        /\ j > batch_idx * cv_batch_size
        /\ j <= (batch_idx + 1) * cv_batch_size}

\* the tasks batch_convert creates for a batch, in the order of the batch
RECURSIVE BatchTasks(_, _)
BatchTasks(batch_idx, j) ==
    IF j \notin ImageBatch(batch_idx) THEN <<>>
    ELSE <<NewTask(j, batch_idx)>> \o BatchTasks(batch_idx, j + 1)

\* batch_results.count(True) over the tasks of a batch
BatchSuccess(batch_idx) ==
    Cardinality({t \in DOMAIN cv_tasks : cv_tasks[t].batch = batch_idx /\ cv_tasks[t].ok})

\* batch_convert's verdict: `return success_count > 0`
BatchVerdict_AllConverted(count, total) == count = total
BatchVerdict(count, total) == count > 0

\* convert_single_image(image_path, output_path) is called
ConvertSingleImage ==
    /\ entry = "converter"
    /\ op = "single"
    /\ cv_pc = "start"
    /\ cv_tasks' = <<NewTask(1, 0)>>
    /\ cv_pc' = "await"
    /\ UNCHANGED <<entry, varsPcd, varsDl, varsMain, varsPdf, cv_closed, op, image_paths, cv_batch_size,
                   out, out_files, cv_semaphore, cv_i, success_count, cv_ret,
                   verdicts>>

\* convert_multiple_images(image_paths, output_path) is called
ConvertMultipleImages ==
    /\ entry = "converter"
    /\ op = "multiple"
    /\ cv_pc = "start"
    /\ IF image_paths = <<>>
       THEN /\ cv_ret' = [returned |-> TRUE, value |-> FALSE]
            /\ cv_pc' = "done"
            /\ UNCHANGED cv_tasks
       ELSE /\ cv_tasks' = <<NewTask(0, 0)>>
            /\ cv_pc' = "await"
            /\ UNCHANGED cv_ret
    /\ UNCHANGED <<entry, varsPcd, varsDl, varsMain, varsPdf, cv_closed, op, image_paths, cv_batch_size,
                   out, out_files, cv_semaphore, cv_i, success_count, verdicts>>

\* batch_convert(image_paths, input_dir, output_dir, batch_size) up to the
\* gather of the first batch
BatchConvert ==
    /\ entry = "converter"
    /\ op = "batch"
    /\ cv_pc = "start"
    /\ IF image_paths = <<>>
       THEN /\ cv_ret' = [returned |-> TRUE, value |-> FALSE]
            /\ cv_pc' = "done"
            /\ UNCHANGED <<cv_tasks, cv_semaphore>>
       ELSE /\ cv_semaphore' = [created |-> TRUE, value |-> MAX_WORKERS]
            /\ cv_tasks' = BatchTasks(0, 1)
            /\ cv_pc' = "await"
            /\ UNCHANGED cv_ret
    /\ UNCHANGED <<entry, varsPcd, varsDl, varsMain, varsPdf, cv_closed, op, image_paths, cv_batch_size,
                   out, out_files, cv_i, success_count, verdicts>>

\* loop.run_in_executor(self.executor, ...) takes the job: a ThreadPoolExecutor
\* that was shut down raises RuntimeError at submit
ExecutorAccepts_AfterShutdown(closed) == TRUE
ExecutorAccepts(closed) == ~closed

\* a conversion call up to its first await: _ensure_directory hands makedirs
\* to the worker pool when the output directory is not there, else the
\* conversion itself is handed over; when the pool refuses the job the
\* exception is caught in the call, which returns False
TaskBegin(t) ==
    /\ entry = "converter"
    /\ cv_tasks[t].pc = "created"
    /\ cv_tasks' = IF ExecutorAccepts(cv_closed)
                   THEN [cv_tasks EXCEPT ![t].pc = IF out.dir_exists THEN "convert"
                                                   ELSE "mkdir"]
                   ELSE [cv_tasks EXCEPT ![t].pc = "done", ![t].ok = FALSE]
    /\ UNCHANGED <<entry, varsPcd, varsDl, varsMain, varsPdf, cv_closed, op, image_paths, cv_batch_size,
                   out, out_files, cv_semaphore, cv_pc, cv_i, success_count, cv_ret,
                   verdicts>>

\* os.makedirs(directory, exist_ok=True) ends: the call goes on to hand the
\* conversion over, or makedirs raised and the call returns False
MkdirDone(t) ==
    /\ entry = "converter"
    /\ cv_tasks[t].pc = "mkdir"
    /\ IF out.writable
       THEN /\ out' = [out EXCEPT !.dir_exists = TRUE]
            /\ cv_tasks' = [cv_tasks EXCEPT ![t].pc = "convert"]
       ELSE /\ cv_tasks' = [cv_tasks EXCEPT ![t].pc = "done", ![t].ok = FALSE]
            /\ UNCHANGED out
    /\ UNCHANGED <<entry, varsPcd, varsDl, varsMain, varsPdf, cv_closed, op, image_paths, cv_batch_size,
                   out_files, cv_semaphore, cv_pc, cv_i, success_count, cv_ret,
                   verdicts>>

\* _convert_image_sync or _convert_multiple_sync ends in the worker pool and
\* the call returns its verdict
ConvertDone(t) ==
    /\ entry = "converter"
    /\ cv_tasks[t].pc = "convert"
    /\ LET image == cv_tasks[t].image
           old == out_files[OutputOf(image)]
           r == IF op = "multiple"
                THEN ConvertMultipleSync(image_paths, old, out.writable)
                ELSE ConvertImageSync(image_paths[image], image, old, out.writable)
       IN
        /\ out_files' = [out_files EXCEPT ![OutputOf(image)] = r.pdf]
        /\ cv_tasks' = [cv_tasks EXCEPT ![t].pc = "done", ![t].ok = r.ok]
    /\ UNCHANGED <<entry, varsPcd, varsDl, varsMain, varsPdf, cv_closed, op, image_paths, cv_batch_size,
                   out, cv_semaphore, cv_pc, cv_i, success_count, cv_ret, verdicts>>

\* the awaited call of convert_single_image or convert_multiple_images returns
CallReturn ==
    /\ entry = "converter"
    /\ op \in {"single", "multiple"}
    /\ cv_pc = "await"
    /\ cv_tasks[1].pc = "done"
    /\ cv_ret' = [returned |-> TRUE, value |-> cv_tasks[1].ok]
    /\ verdicts' = Append(verdicts, cv_tasks[1].ok)
    /\ cv_pc' = "done"
    /\ UNCHANGED <<entry, varsPcd, varsDl, varsMain, varsPdf, cv_closed, op, image_paths, cv_batch_size,
                   out, out_files, cv_semaphore, cv_tasks, cv_i, success_count>>

\* close() between two calls of the converter, or before the first:
\* self.executor.shutdown(wait=True)
Close ==
    /\ entry = "converter"
    /\ cv_pc \in {"start", "done"}
    /\ ~cv_closed
    /\ cv_closed' = TRUE
    /\ UNCHANGED <<entry, varsPcd, varsDl, varsMain, varsPdf, op, image_paths, cv_batch_size,
                   out, out_files, cv_semaphore, cv_tasks, cv_pc, cv_i,
                   success_count, cv_ret, verdicts>>

\* convert_single_image is called again with the same arguments
CallAgain ==
    /\ entry = "converter"
    /\ op = "single"
    /\ cv_pc = "done"
    /\ Len(verdicts) < MaxRuns
    /\ cv_tasks' = <<NewTask(1, 0)>>
    /\ cv_ret' = [returned |-> FALSE, value |-> FALSE]
    /\ cv_pc' = "await"
    /\ UNCHANGED <<entry, varsPcd, varsDl, varsMain, varsPdf, cv_closed, op, image_paths, cv_batch_size,
                   out, out_files, cv_semaphore, cv_i, success_count, verdicts>>

\* batch_convert: gather returns for the batch; the successes are counted and
\* the next batch is started, or batch_convert returns
BatchGather ==
    /\ entry = "converter"
    /\ op = "batch"
    /\ cv_pc = "await"
    /\ \A t \in DOMAIN cv_tasks : cv_tasks[t].pc = "done"
    /\ LET count == success_count + BatchSuccess(cv_i) IN
        /\ success_count' = count
        /\ IF ImageBatch(cv_i + 1) # {}
           THEN /\ cv_i' = cv_i + 1
                /\ cv_tasks' = cv_tasks \o BatchTasks(cv_i + 1,
                                                      (cv_i + 1) * cv_batch_size + 1)
                /\ UNCHANGED <<cv_pc, cv_ret>>
           ELSE /\ cv_ret' = [returned |-> TRUE,
                              value |-> BatchVerdict(count, Len(image_paths))]
                /\ cv_pc' = "done"
                /\ UNCHANGED <<cv_i, cv_tasks>>
    /\ UNCHANGED <<entry, varsPcd, varsDl, varsMain, varsPdf, cv_closed, op, image_paths, cv_batch_size,
                   out, out_files, cv_semaphore, verdicts>>

\* the files a call can be given: none at the path, a .TIF scan, a .png that
\* holds no image, a greyscale .PNG
ImageFiles ==
    {[exists |-> FALSE, ext |-> ".png", content |-> "garbage"],
     [exists |-> TRUE, ext |-> ".TIF", content |-> "RGB"],
     [exists |-> TRUE, ext |-> ".png", content |-> "garbage"],
     [exists |-> TRUE, ext |-> ".PNG", content |-> "L"]}

\* the lists of at most n files
ImageLists(n) == UNION {[1..m -> ImageFiles] : m \in 0..n}

IdleCv ==
    /\ op = "none"
    /\ image_paths = <<>>
    /\ cv_batch_size = 1
    /\ out = [dir_exists |-> FALSE, writable |-> FALSE]
    /\ out_files = <<>>
    /\ cv_semaphore = [created |-> FALSE, value |-> 0]
    /\ cv_tasks = <<>>
    /\ cv_pc = "idle"
    /\ cv_i = 0
    /\ success_count = 0
    /\ cv_ret = [returned |-> FALSE, value |-> FALSE]
    /\ verdicts = <<>>
    /\ cv_closed = FALSE

InitCv ==
    /\ op \in {"single", "multiple", "batch"}
    /\ image_paths \in CASE op = "single" -> [1..1 -> ImageFiles]
                         [] op = "multiple" -> ImageLists(MaxImages)
                         [] op = "batch" -> ImageLists(MaxBatchImages)
    /\ cv_batch_size \in IF op = "batch" THEN 1..MaxCvBatch ELSE {1}
    /\ out \in [dir_exists : BOOLEAN, writable : BOOLEAN]
    /\ out_files = [o \in 0..Len(image_paths) |-> NoPdf]
    /\ cv_semaphore = [created |-> FALSE, value |-> 0]
    /\ cv_tasks = <<>>
    /\ cv_pc = "start"
    /\ cv_i = 0
    /\ success_count = 0
    /\ cv_ret = [returned |-> FALSE, value |-> FALSE]
    /\ verdicts = <<>>
    /\ cv_closed = FALSE

\* ======================================== utils/csv_url_processor.py
\* A downloaded file is the extension of its path.
\* process_csv_file(csv_path, urls_file, map_file) on a CSV of n rows with a
\* PREVIEW_URL: (False, []) with no row, else the verdict of
\* write_urls_to_file and the URLs
ProcessCsvFile(n, writable) ==
    IF n = 0 THEN [success |-> FALSE, urls |-> 0]
    ELSE [success |-> writable, urls |-> n]

\* `if not success or not urls`
NothingToDownload(r) == ~r.success \/ r.urls = 0

\* the steps of process_csv_and_download at which an exception can start
PcdSteps == {"makedirs", "batch_download", "convert"}

\* the steps that lie inside its try block
PcdTrySteps == PcdSteps

\* process_csv_and_download leaves with False, or with the exception
PcdOnError(step) ==
    IF step \in PcdTrySteps THEN [returned |-> TRUE, value |-> FALSE]
    ELSE [returned |-> FALSE, value |-> FALSE]

\* batch_count = (total_urls + batch_size - 1) // batch_size divides by zero
DownloadRaises(size) == size = 0

\* `not file.lower().endswith('.pdf')`
IsImageFile(file) == Lower(file) # ".pdf"

\* image_files: the downloaded files left by the filter
ImageFilesOf(files) == SelectSeq(files, IsImageFile)

\* the conversion step chosen: one combined PDF, or a PDF per image
ConversionStep_AlwaysBatch(combine) == "batch_convert"
ConversionStep(combine) ==
    IF combine THEN "convert_multiple_images" ELSE "batch_convert"

\* what the converter can answer: a verdict; batch_convert can raise
ConverterAnswers(method) ==
    {"True", "False"} \cup (IF method = "batch_convert" THEN {Raised} ELSE {})

\* the value returned after the conversion step said `success`
ReturnAfterConversion_Always(success) == TRUE
ReturnAfterConversion(success) == success

\* the files a batch download of the rows can hand back: each row's file or
\* nothing for it
RECURSIVE Downloadable(_)
Downloadable(rows) ==
    IF rows = <<>> THEN {<<>>}
    ELSE LET rest == Downloadable(Tail(rows)) IN
         rest \cup {<<Head(rows)>> \o r : r \in rest}

\* process_csv_and_download up to `await downloader.batch_download(...)`: the
\* three directories, process_csv_file, `if not success or not urls`
PcdStart ==
    /\ entry = "process_csv_and_download"
    /\ pcd_pc = "start"
    /\ LET r == ProcessCsvFile(Len(pcd_args.rows), pcd_args.urls_file_writable) IN
       IF ~pcd_args.dirs_ok
       THEN /\ pcd_ret' = PcdOnError("makedirs")
            /\ pcd_pc' = IF pcd_ret'.returned THEN "returned" ELSE "raised"
       ELSE IF NothingToDownload(r)
       THEN /\ pcd_ret' = [returned |-> TRUE, value |-> FALSE]
            /\ pcd_pc' = "returned"
       ELSE /\ pcd_pc' = "download"
            /\ UNCHANGED pcd_ret
    /\ UNCHANGED <<entry, varsDl, varsMain, varsPdf, varsCv, pcd_args,
                   downloaded_files, converter_calls>>

\* batch_download returns or raises: `if not downloaded_files`, the filter,
\* `if not image_files`, then the call of the converter
PcdDownloaded ==
    /\ entry = "process_csv_and_download"
    /\ pcd_pc = "download"
    /\ IF DownloadRaises(pcd_args.batch_size)
       THEN /\ pcd_ret' = PcdOnError("batch_download")
            /\ pcd_pc' = IF pcd_ret'.returned THEN "returned" ELSE "raised"
            /\ UNCHANGED <<downloaded_files, converter_calls>>
       ELSE \E files \in Downloadable(pcd_args.rows) :
            /\ downloaded_files' = files
            /\ IF files = <<>>
               THEN /\ pcd_ret' = [returned |-> TRUE, value |-> FALSE]
                    /\ pcd_pc' = "returned"
                    /\ UNCHANGED converter_calls
               ELSE IF ImageFilesOf(files) = <<>>
               THEN /\ pcd_ret' = [returned |-> TRUE, value |-> TRUE]
                    /\ pcd_pc' = "returned"
                    /\ UNCHANGED converter_calls
               ELSE /\ converter_calls' =
                          Append(converter_calls,
                                 [method |-> ConversionStep(pcd_args.combine),
                                  images |-> ImageFilesOf(files),
                                  answer |-> Pending])
                    /\ pcd_pc' = "convert"
                    /\ UNCHANGED pcd_ret
    /\ UNCHANGED <<entry, varsDl, varsMain, varsPdf, varsCv, pcd_args>>

\* the converter answers: `if success: ... else: return False`, `return True`
PcdConverted ==
    /\ entry = "process_csv_and_download"
    /\ pcd_pc = "convert"
    /\ \E answer \in ConverterAnswers(converter_calls[1].method) :
        /\ converter_calls' = [converter_calls EXCEPT ![1].answer = answer]
        /\ pcd_ret' = IF answer = Raised THEN PcdOnError("convert")
                      ELSE [returned |-> TRUE,
                            value |-> ReturnAfterConversion(answer = "True")]
        /\ pcd_pc' = IF pcd_ret'.returned THEN "returned" ELSE "raised"
    /\ UNCHANGED <<entry, varsDl, varsMain, varsPdf, varsCv, pcd_args,
                   downloaded_files>>

\* the extensions of the files download() makes of the rows' URLs
DownloadedExts == {".png", ".pdf", ".PDF"}

IdlePcd ==
    /\ pcd_args = [rows |-> <<>>, dirs_ok |-> TRUE, urls_file_writable |-> TRUE,
                   combine |-> FALSE, batch_size |-> 1]
    /\ pcd_pc = "idle"
    /\ downloaded_files = <<>>
    /\ converter_calls = <<>>
    /\ pcd_ret = [returned |-> FALSE, value |-> FALSE]

InitPcd ==
    /\ pcd_args \in [rows : UNION {[1..n -> DownloadedExts] : n \in 0..MaxCsvUrls},
                      dirs_ok : BOOLEAN, urls_file_writable : BOOLEAN,
                      combine : BOOLEAN, batch_size : {0, 100}]
    /\ pcd_pc = "start"
    /\ downloaded_files = <<>>
    /\ converter_calls = <<>>
    /\ pcd_ret = [returned |-> FALSE, value |-> FALSE]

\* ---------------------------------------------------- main.py: initial states
\* the rows of the CSV: row d is a URL, with or without page index, and a
\* name; the first row has the first name, the later rows the same or the other
Filenames == {[base |-> "a", ext |-> ".pdf"], [base |-> "b", ext |-> ".tif"]}
Rows(n) ==
    {r \in [1..n -> [indexed : BOOLEAN, filename : Filenames]] :
        r[1].filename.base = "a"}

\* pages 1..k answer 200 and the later ones `fail`
PrefixPattern(m, k, fail) ==
    [p \in 1..m |-> IF p <= k THEN StatusAnswer(HTTP_OK) ELSE fail]

\* the answers of the server for one row, probed up to page m: a run of one
\* row ranges over every pattern, a run of several rows over the patterns in
\* which the pages up to some k exist and the later ones do not
Patterns(n, m, indexed) ==
    IF ~indexed
    THEN {[p \in 1..m |-> a] : a \in IF n = 1 THEN Answers
                                      ELSE {StatusAnswer(HTTP_OK), StatusAnswer(404)}}
    ELSE IF n = 1
    THEN [1..m -> Answers]
    ELSE {PrefixPattern(m, k, StatusAnswer(404)) : k \in 0..m}

\* before the conversion phase: no converter, nothing converted, not returned
IdlePdf ==
    /\ converter = [created |-> FALSE, shutdown |-> FALSE, closes |-> 0,
                    closed |-> FALSE, running |-> 0, calls |-> <<>>]
    /\ conv_todo = <<>>
    /\ conversion_results = <<>>
    /\ conversion_success = FALSE
    /\ pdfs = {}
    /\ exc = ""
    /\ ret = Pending
    /\ pdf_dir = "not called"
    /\ downloads = "present"

\* the runs that go on into the conversion: page-index URLs whose pages exist
\* up to some page and are not found from there on
ConvertingRun ==
    /\ max_pages <= MaxPagesCsv
    /\ \A d \in DOMAIN file_data :
          /\ file_data[d].url.indexed
          /\ \E k \in 0..max_pages :
                server[d] = PrefixPattern(max_pages, k, StatusAnswer(404))

IdleMain ==
    /\ file_data = <<>>
    /\ max_pages = 0
    /\ server = <<>>
    /\ pc_main = "idle"
    /\ sem_value = 0
    /\ docs = <<>>
    /\ all_pages = <<>>
    /\ all_errors = <<>>
    /\ report = Absent
    /\ fetchLog = <<>>
    /\ csv_readable = TRUE
    /\ keep_downloads = FALSE
    /\ overtaken = FALSE
    /\ convert_to_pdf = FALSE
    /\ IdlePdf

\* write_error_log called with no failure, or with one
InitFlush ==
    /\ file_data = <<>>
    /\ max_pages = 0
    /\ server = <<>>
    /\ pc_main = "flush"
    /\ sem_value = 0
    /\ docs = <<>>
    /\ all_pages = <<>>
    /\ \E recorded \in {<<>>} \cup {<<FailureRecord(f, [row |-> 1, indexed |-> TRUE,
                                                        index |-> p], 404, "", p)>> :
                                    f \in Filenames, p \in 1..MaxPages} :
          all_errors = recorded
    /\ report \in {Absent, OldReport}
    /\ fetchLog = <<>>
    /\ csv_readable = TRUE
    /\ keep_downloads = FALSE
    /\ overtaken = FALSE
    /\ convert_to_pdf = FALSE
    /\ IdlePdf

\* the CSV cannot be read, or is read and has no row with a PREVIEW_URL:
\* file_data stays empty
NoRows ==
    /\ csv_readable \in BOOLEAN
    /\ file_data = <<>>
    /\ max_pages = 1
    /\ server = <<>>

\* more rows than process_csv resolves at once: URLs without page index, of
\* which the server has every other one
Crowd ==
    /\ csv_readable = TRUE
    /\ max_pages = 1
    /\ file_data = [d \in 1..(DocLimit + MaxWaiting) |->
                      [url |-> [row |-> d, indexed |-> FALSE, index |-> 0],
                       filename |-> [base |-> "a", ext |-> ".pdf"]]]
    /\ server = [d \in 1..(DocLimit + MaxWaiting) |->
                   <<StatusAnswer(IF d % 2 = 1 THEN HTTP_OK ELSE 404)>>]

InitMain ==
    /\ \/ NoRows
       \/ Crowd
       \/ /\ csv_readable = TRUE
          /\ \E n \in 1..MaxDocs : \E rows \in Rows(n) :
              /\ max_pages \in 1..(IF n = 1 THEN MaxPages ELSE MaxPagesCsv)
              /\ file_data = [d \in 1..n |->
                                [url |-> [row |-> d, indexed |-> rows[d].indexed,
                                          index |-> 0],
                                 filename |-> rows[d].filename]]
              /\ server \in {s \in [1..n -> UNION {Patterns(n, max_pages, b) :
                                                      b \in BOOLEAN}] :
                                \A d \in 1..n :
                                    s[d] \in Patterns(n, max_pages, rows[d].indexed)}
    /\ pc_main = "start"
    /\ sem_value = 0
    /\ docs = <<>>
    /\ all_pages = <<>>
    /\ all_errors = <<>>
    /\ report \in (IF Len(file_data) > DocLimit THEN {Absent} ELSE {Absent, OldReport})
    /\ fetchLog = [d \in DOMAIN file_data |-> <<>>]
    /\ convert_to_pdf \in BOOLEAN
    /\ convert_to_pdf => ConvertingRun
    /\ keep_downloads \in (IF convert_to_pdf THEN BOOLEAN ELSE {FALSE})
    /\ overtaken = FALSE
    /\ IdlePdf

\* ------------------------------------------------------------ specification
IdleDl ==
    /\ urls = <<>>
    /\ batch_size = 1
    /\ max_concurrent_downloads = 1
    /\ semaphore = [created |-> FALSE, value |-> 0]
    /\ bd_pc = "idle"
    /\ i = 0
    /\ batch_count = 0
    /\ all_downloaded = <<>>
    /\ tasks = <<>>
    /\ downloaded_paths = <<>>
    /\ completedQ = <<>>
    /\ completed = 0
    /\ batches = <<>>
    /\ progress_callback = None
    /\ progress = <<>>
    /\ output_path = None
    /\ headers = PlainImage

InitDl ==
    /\ \E n \in 0..MaxUrls : urls = [j \in 1..n |-> j]
    /\ batch_size \in 1..MaxBatch
    /\ max_concurrent_downloads \in 1..MaxConc
    /\ semaphore = [created |-> FALSE, value |-> 0]
    /\ bd_pc = "start"
    /\ i = 0
    /\ batch_count = 0
    /\ all_downloaded = <<>>
    /\ tasks = <<>>
    /\ downloaded_paths = <<>>
    /\ completedQ = <<>>
    /\ completed = 0
    /\ batches = <<>>
    /\ progress_callback = None
    /\ progress = <<>>
    /\ output_path = None
    /\ headers = PlainImage

\* download_multiple(urls, progress_callback=...) on a downloader just made
InitDm ==
    /\ \E n \in 0..MaxDmUrls : urls = [j \in 1..n |-> j]
    /\ batch_size = 1
    /\ max_concurrent_downloads \in 1..MaxConc
    /\ semaphore = [created |-> FALSE, value |-> 0]
    /\ bd_pc = "call"
    /\ i = 0
    /\ batch_count = 0
    /\ all_downloaded = <<>>
    /\ tasks = <<>>
    /\ downloaded_paths = <<>>
    /\ completedQ = <<>>
    /\ completed = 0
    /\ batches = <<>>
    /\ progress_callback \in ProgressCallbacks
    /\ progress = <<>>
    /\ output_path = None
    /\ headers = PlainImage

\* download(url) and download(url, output_path) on a downloader just made,
\* awaited by its caller
InitDownload ==
    /\ \E u \in {1, DirUrl, ViewUrl} : urls = <<u>>
    /\ batch_size = 1
    /\ max_concurrent_downloads \in 1..MaxConc
    /\ semaphore = [created |-> FALSE, value |-> 0]
    /\ bd_pc = "download"
    /\ i = 0
    /\ batch_count = 0
    /\ all_downloaded = <<>>
    /\ tasks = NewTasks(urls, 0)
    /\ downloaded_paths = <<>>
    /\ completedQ = <<>>
    /\ completed = 0
    /\ batches = <<>>
    /\ progress_callback = None
    /\ progress = <<>>
    /\ output_path \in {None, "dest/given.png"}
    /\ headers \in Headers

\* a run goes through one entry point: the downloader's batch_download or
\* main.py's process_csv
Init ==
    \/ entry = "downloader" /\ InitDl /\ IdleMain /\ IdleCv /\ IdlePcd
    \/ entry = "download_multiple" /\ InitDm /\ IdleMain /\ IdleCv /\ IdlePcd
    \/ entry = "download" /\ InitDownload /\ IdleMain /\ IdleCv /\ IdlePcd
    \/ entry = "main" /\ IdleDl /\ InitMain /\ IdleCv /\ IdlePcd
    \/ entry = "write_error_log" /\ IdleDl /\ InitFlush /\ IdleCv /\ IdlePcd
    \/ entry = "converter" /\ IdleDl /\ IdleMain /\ InitCv /\ IdlePcd
    \/ entry = "process_csv_and_download" /\ IdleDl /\ IdleMain /\ IdleCv /\ InitPcd

Next ==
    \/ BatchStart
    \/ BatchNext
    \/ BatchReturn
    \/ Collect
    \/ DownloadMultiple
    \/ \E t \in DOMAIN tasks : Acquire(t)
    \/ \E t \in DOMAIN tasks : RespondError(t)
    \/ \E t \in DOMAIN tasks : Respond(t)
    \/ \E t \in DOMAIN tasks : Write(t)
    \/ FlushCall
    \/ ProcessStart
    \/ \E d \in DOMAIN docs : DocStart(d)
    \/ \E d \in DOMAIN docs : FetchSingle(d)
    \/ \E d \in DOMAIN docs : FetchPage(d)
    \/ Gather
    \/ ConvertStart
    \/ ConvertCall
    \/ ConvertReturn
    \/ CancelConversion
    \/ ConvertEnd
    \/ CloseCall
    \/ JobFinish
    \/ CloseReturn
    \/ Return
    \/ ConvertSingleImage
    \/ ConvertMultipleImages
    \/ BatchConvert
    \/ \E t \in DOMAIN cv_tasks : TaskBegin(t)
    \/ \E t \in DOMAIN cv_tasks : MkdirDone(t)
    \/ \E t \in DOMAIN cv_tasks : ConvertDone(t)
    \/ CallReturn
    \/ CallAgain
    \/ Close
    \/ BatchGather
    \/ PcdStart
    \/ PcdDownloaded
    \/ PcdConverted

Spec == Init /\ [][Next]_vars

\* batch_download by itself, run by an event loop that runs a coroutine that is
\* ready; every request ends, with a response or by its ClientTimeout
NextDl ==
    \/ BatchStart
    \/ BatchNext
    \/ BatchReturn
    \/ Collect
    \/ \E t \in DOMAIN tasks : Acquire(t)
    \/ \E t \in DOMAIN tasks : RespondError(t)
    \/ \E t \in DOMAIN tasks : Respond(t)
    \/ \E t \in DOMAIN tasks : Write(t)

InitBatchDownload == entry = "downloader" /\ InitDl /\ IdleMain /\ IdleCv /\ IdlePcd

BatchDownloadRun == InitBatchDownload /\ [][NextDl]_vars /\ WF_vars(NextDl)

\* ====================================================================== claims
InSection(t) == tasks[t].pc \in {"request", "write"}
Holders == {t \in DOMAIN tasks : tasks[t].holds}
TasksOfBatch(k) == {t \in DOMAIN tasks : tasks[t].batch = k}

\* C1: at no point are more than max_concurrent_downloads download() calls
\* inside the semaphore-guarded section, in the first batch and in every later
\* one.
C1_ConcurrencyBound ==
    Cardinality({t \in DOMAIN tasks : InSection(t)}) <= max_concurrent_downloads

\* the limit is reached in a later batch while another task of it waits
C1_Witness ==
    /\ entry = "downloader"
    /\ Cardinality({t \in DOMAIN tasks : InSection(t)}) = max_concurrent_downloads
    /\ \E t \in DOMAIN tasks : tasks[t].batch >= 1 /\ InSection(t)
    /\ \E t \in DOMAIN tasks : tasks[t].batch >= 1 /\ tasks[t].pc = "created"

\* C2: a download() is inside the section only while it holds a permit, the
\* permits held and the free ones always add up to max_concurrent_downloads,
\* and once every task of a download_multiple call has finished, however it
\* ended, all permits are free again.
C2_SlotAcquiredAndReleased ==
    /\ \A t \in DOMAIN tasks : InSection(t) => tasks[t].holds
    /\ semaphore.created =>
          semaphore.value + Cardinality(Holders) = max_concurrent_downloads
    /\ (semaphore.created /\ \A t \in DOMAIN tasks : tasks[t].pc = "done") =>
          semaphore.value = max_concurrent_downloads

\* a download_multiple call is over with a failed and a successful download
C2_Witness ==
    /\ bd_pc = "loop"
    /\ \E t \in DOMAIN tasks : tasks[t].result = None
    /\ \E t \in DOMAIN tasks : tasks[t].result \notin {None, Pending, Raised}
    /\ semaphore.value = max_concurrent_downloads

FetchesOf(d) == fetchLog[d]
FailedFetchesOf(d) == SelectSeq(fetchLog[d], LAMBDA e : ~e.ok)

\* C3: no exception leaves a fetch: download() ends with a path or None and
\* download_multiple / batch_download never see it raise; download_file ends
\* with a path or with None and one failure record per failed call, and no
\* document task or process_csv sees it raise.
C3_FetchNeverRaises ==
    /\ \A t \in DOMAIN tasks : tasks[t].result # Raised
    /\ bd_pc # "raised"
    /\ \A d \in DOMAIN docs :
          /\ docs[d].pc # "raised"
          /\ Len(docs[d].errors) = Len(FailedFetchesOf(d))
          /\ Len(docs[d].pages) + Len(docs[d].errors) = Len(FetchesOf(d))
    /\ pc_main # "raised"

\* a document whose directory could not be made ended with a failure record
C3_Witness ==
    \E d \in DOMAIN docs :
        /\ docs[d].pc = "done"
        /\ \E k \in DOMAIN docs[d].errors : docs[d].errors[k].detail = "makedirs"

ServerOk(d, p) == server[d][p] = StatusAnswer(HTTP_OK)

\* the pages of row d the server answers 200 for before its first other answer,
\* among the max_pages pages probed
LeadingOk(d) ==
    CHOOSE k \in 0..max_pages :
        /\ \A p \in 1..k : ServerOk(d, p)
        /\ k < max_pages => ~ServerOk(d, k + 1)

PagePaths(d, m) == [p \in 1..m |-> OutputPath(file_data[d].filename, p)]

\* C5: for a document with a page-index URL the pages collected are at every
\* step the paths of pages 1..m in ascending order with no gap, and when
\* download_multipages returns, m is the number k of pages the server
\* answered 200 for before its first failure (k = 0 included).
C5_PagesArePrefix ==
    \A d \in DOMAIN docs :
        HasPageIndex(file_data[d].url) =>
            /\ docs[d].pages = PagePaths(d, Len(docs[d].pages))
            /\ Len(docs[d].pages) <= LeadingOk(d)
            /\ docs[d].pc = "done" => Len(docs[d].pages) = LeadingOk(d)

\* a document ended with pages 1 and 2 after page 3 failed, a later page
\* existing on the server
C5_Witness ==
    \E d \in DOMAIN docs :
        /\ HasPageIndex(file_data[d].url)
        /\ docs[d].pc = "done"
        /\ Len(docs[d].pages) = 2
        /\ max_pages >= 4
        /\ ServerOk(d, 4)

\* C6: the pages of a document are fetched in the order 1, 2, 3, ...; no page
\* is fetched after a failed fetch; at most max_pages fetches are made; the
\* probing is over exactly after the first failure or after page max_pages;
\* and max_pages successes end it with max_pages pages and no failure record.
C6_StopsAtFirstFailure ==
    \A d \in DOMAIN docs :
        HasPageIndex(file_data[d].url) =>
            LET log == FetchesOf(d) IN
            /\ \A j \in 1..Len(log) : log[j].page = j
            /\ \A j \in 1..(Len(log) - 1) : log[j].ok
            /\ Len(log) <= max_pages
            /\ docs[d].pc = "done" =>
                  /\ Len(log) >= 1
                  /\ ~log[Len(log)].ok \/ Len(log) = max_pages
            /\ (docs[d].pc = "done" /\ Len(log) = max_pages /\ log[Len(log)].ok) =>
                  /\ Len(docs[d].pages) = max_pages
                  /\ docs[d].errors = <<>>

\* a document ended on a failure with pages left to probe that the server has
C6_Witness ==
    \E d \in DOMAIN docs :
        /\ HasPageIndex(file_data[d].url)
        /\ docs[d].pc = "done"
        /\ docs[d].errors # <<>>
        /\ Len(FetchesOf(d)) >= 2
        /\ Len(FetchesOf(d)) < max_pages
        /\ ServerOk(d, Len(FetchesOf(d)) + 1)

CeilDiv(n, b) == IF n % b = 0 THEN n \div b ELSE n \div b + 1

\* C7: the batches are consecutive runs of the URLs of sizes b, ..., b, r with
\* r = n mod b (b when that is 0), ceil(n/b) of them when batch_download
\* returns; an empty input returns at once with no batch, no task and no error.
C7_BatchPartition ==
    LET n == Len(urls)
        b == batch_size
    IN
    /\ bd_pc # "raised"
    /\ Len(batches) <= CeilDiv(n, b)
    /\ \A k \in 1..Len(batches) :
          /\ Len(batches[k]) = IF k < CeilDiv(n, b) \/ n % b = 0 THEN b ELSE n % b
          /\ \A j \in 1..Len(batches[k]) : batches[k][j] = urls[(k - 1) * b + j]
    /\ bd_pc = "done" => Len(batches) = CeilDiv(n, b)
    /\ (entry = "downloader" /\ n = 0 /\ bd_pc # "start") =>
          bd_pc = "done" /\ batches = <<>> /\ tasks = <<>> /\ all_downloaded = <<>>

\* a run ended after full batches and a shorter last one
C7_Witness ==
    /\ bd_pc = "done"
    /\ Len(batches) >= 2
    /\ Len(batches[Len(batches)]) < batch_size
    /\ Len(batches[1]) = batch_size

\* C8: while any task of a batch is unfinished, no task of a later batch
\* exists; the tasks of one batch are in flight together.
C8_BatchesSequential ==
    \A t \in DOMAIN tasks : \A u \in DOMAIN tasks :
        tasks[t].batch < tasks[u].batch => tasks[t].pc = "done"

\* two tasks of the second batch are inside download() at the same time
C8_Witness ==
    \E t \in DOMAIN tasks : \E u \in DOMAIN tasks :
        /\ t # u
        /\ tasks[t].batch = 1 /\ tasks[u].batch = 1
        /\ InSection(t) /\ InSection(u)

\* C9 as stated: pages 1, 2, 3 answer 200 and page 4 answers 404; the page set
\* holds the one document with its 3 paths and no failure is recorded: the
\* ledger is empty and the report is not written.
C9_Terminating404NotRecorded ==
    ( /\ pc_main = "downloaded"
      /\ Len(file_data) = 1
      /\ HasPageIndex(file_data[1].url)
      /\ max_pages >= 4
      /\ \A p \in 1..3 : ServerOk(1, p)
      /\ server[1][4] = StatusAnswer(404) )
    => /\ DOMAIN all_pages = {BaseName(file_data[1].filename)}
       /\ all_pages[BaseName(file_data[1].filename)] = PagePaths(1, 3)
       /\ all_errors = <<>>
       /\ report.entries = <<>>

Is2xx(status) == status >= 200 /\ status < 300

\* C10 as stated: a fetch that got a response succeeded exactly if the status
\* was 2xx, and a non-2xx status is in the failure record of that fetch.
C10_SucceedsIff2xx ==
    \A d \in DOMAIN docs : \A j \in DOMAIN fetchLog[d] :
        LET a == server[d][fetchLog[d][j].page] IN
        a.exc = "" =>
            /\ fetchLog[d][j].ok <=> Is2xx(a.status)
            /\ ~Is2xx(a.status) =>
                  \E k \in DOMAIN docs[d].errors :
                      /\ docs[d].errors[k].page_num = fetchLog[d][j].page
                      /\ docs[d].errors[k].status = a.status

\* the first fetch of row d, the one of page 1, failed
PageOneFailed(d) == Len(fetchLog[d]) >= 1 /\ ~fetchLog[d][1].ok

\* C11: a document whose fetch of page 1 failed ends at once with no page and
\* exactly one failure record, and it puts nothing into all_pages: a key of its
\* identifier, if present, holds the non-empty pages of another row of the same
\* identifier, never an empty list.
C11_FirstPageFailure ==
    \A d \in DOMAIN docs :
        PageOneFailed(d) =>
            LET key == BaseName(file_data[d].filename) IN
            /\ docs[d].pc = "done"
            /\ Len(fetchLog[d]) = 1
            /\ docs[d].pages = <<>>
            /\ Len(docs[d].errors) = 1
            /\ docs[d].errors[1].page_num = 1
            /\ key \in DOMAIN all_pages =>
                  /\ all_pages[key] # <<>>
                  /\ \E e \in DOMAIN docs :
                        /\ e # d
                        /\ BaseName(file_data[e].filename) = key
                        /\ all_pages[key] = docs[e].pages

\* the results are in: the first row failed on page 1 with more pages to probe
\* and only the other row, of another identifier, is in all_pages
C11_Witness ==
    /\ pc_main = "downloaded"
    /\ Len(file_data) = 2
    /\ HasPageIndex(file_data[1].url)
    /\ max_pages >= 2
    /\ PageOneFailed(1)
    /\ Len(all_errors) >= 1
    /\ DOMAIN all_pages = {BaseName(file_data[2].filename)}
    /\ BaseName(file_data[2].filename) # BaseName(file_data[1].filename)

\* C12: for a URL without page index download_multipages makes one fetch,
\* whatever max_pages is, and returns its result: the path of page 1 and no
\* error when it succeeded, no page and one error when it failed.
C12_SingleFetchWithoutIndex ==
    \A d \in DOMAIN docs :
        ~file_data[d].url.indexed =>
            /\ Len(fetchLog[d]) <= 1
            /\ docs[d].pc = "done" =>
                  /\ Len(fetchLog[d]) = 1
                  /\ fetchLog[d][1].page = 1
                  /\ fetchLog[d][1].ok =>
                        /\ docs[d].pages = <<OutputPath(file_data[d].filename, 1)>>
                        /\ docs[d].errors = <<>>
                  /\ ~fetchLog[d][1].ok =>
                        /\ docs[d].pages = <<>>
                        /\ Len(docs[d].errors) = 1

\* a document without page index ended with its one page, max_pages being 3
\* or more
C12_Witness ==
    \E d \in DOMAIN docs :
        /\ ~file_data[d].url.indexed
        /\ max_pages >= 3
        /\ docs[d].pc = "done"
        /\ Len(docs[d].pages) = 1
        /\ docs[d].errors = <<>>

\* the rows whose document came back with pages
RowsWithPages == {d \in DOMAIN docs : docs[d].pages # <<>>}

\* C13: after the results loop all_pages has one key per identifier of the rows
\* that came back with pages, every stored sequence is non-empty, and it is the
\* page sequence of one row of that identifier: the paths of pages 1..m in
\* ascending order.
C13_PageSetWellFormed ==
    pc_main \notin {"idle", "start", "gather", "raised"} =>
        /\ DOMAIN all_pages = {BaseName(file_data[d].filename) : d \in RowsWithPages}
        /\ \A key \in DOMAIN all_pages :
              /\ all_pages[key] # <<>>
              /\ \E d \in RowsWithPages :
                    /\ BaseName(file_data[d].filename) = key
                    /\ all_pages[key] = docs[d].pages
                    /\ all_pages[key] = PagePaths(d, Len(all_pages[key]))

\* two rows of the same identifier both came back with pages, one of them with
\* two, and all_pages has the one key
C13_Witness ==
    /\ pc_main = "downloaded"
    /\ Len(file_data) = 2
    /\ BaseName(file_data[1].filename) = BaseName(file_data[2].filename)
    /\ Len(docs[1].pages) = 2
    /\ Len(docs[2].pages) = 1
    /\ Cardinality(DOMAIN all_pages) = 1

\* C14: a step that leaves the ledger empty and appends no conversion error
\* leaves the report file as it was: write_error_log called with no failure
\* neither creates nor rewrites it, and a run of process_csv that recorded no
\* failure ends with the report it found.
C14_EmptyFlushIsNoOp ==
    [][(all_errors' = <<>> /\ report'.appended = report.appended)
          => report' = report]_vars

\* write_error_log was called with no failure and the report of an earlier run
\* is as it was
C14_Witness ==
    /\ entry = "write_error_log"
    /\ pc_main = "flushed"
    /\ all_errors = <<>>
    /\ report = OldReport

\* the conversions of the run that did not succeed
FailedConversions == {k \in DOMAIN conversion_results : ~conversion_results[k]}

\* C15 as stated: when process_csv has returned, every failed fetch has its
\* record in the report, and every document whose conversion did not succeed
\* has a record there too, beyond the records of the fetches.
C15_BothPhasesReachLedger ==
    pc_main = "returned" =>
        /\ \A d \in DOMAIN docs : \A j \in DOMAIN fetchLog[d] :
              ~fetchLog[d][j].ok =>
                  \E k \in DOMAIN report.entries :
                      /\ report.entries[k].filename = file_data[d].filename
                      /\ report.entries[k].page_num = fetchLog[d][j].page
        /\ Cardinality(FailedConversions)
              <= Len(report.entries) - Len(all_errors) + report.appended

\* the file is there, has a supported extension and holds an image
ValidImage(file) ==
    /\ file.exists
    /\ Lower(file.ext) \in SUPPORTED_FORMATS
    /\ file.content # "garbage"

\* the PDF of image j has been written
Converted(j) == out_files[OutputOf(j)].exists

\* C16: when batch_convert has returned on a converter in use, every image has
\* had its one conversion call, and the value returned is True exactly if at
\* least one of them converted: with an output directory that can be written,
\* exactly if at least one image is valid, whatever the batch size; in
\* particular False for a list of invalid or missing images and for the empty
\* list.
C16_BatchTrueIffOneConverted ==
    (op = "batch" /\ cv_ret.returned /\ ~cv_closed) =>
        /\ Len(cv_tasks) = Len(image_paths)
        /\ \A t \in DOMAIN cv_tasks :
              /\ cv_tasks[t].image = t
              /\ cv_tasks[t].pc = "done"
              /\ cv_tasks[t].ok <=> Converted(t)
        /\ cv_ret.value <=> \E j \in DOMAIN image_paths : Converted(j)
        /\ out.writable =>
              (cv_ret.value <=> \E j \in DOMAIN image_paths : ValidImage(image_paths[j]))
        /\ image_paths = <<>> => ~cv_ret.value /\ cv_tasks = <<>>

\* batch_convert returned True after two batches, the one image of the first
\* batch being invalid and the one of the second valid
C16_Witness ==
    /\ op = "batch"
    /\ cv_ret.returned
    /\ cv_ret.value
    /\ cv_batch_size = 1
    /\ Len(image_paths) = 2
    /\ ~ValidImage(image_paths[1])
    /\ ValidImage(image_paths[2])

\* the positions of the valid images of the list
ValidPositions == {j \in DOMAIN image_paths : ValidImage(image_paths[j])}

\* C17: on a converter in use, when convert_multiple_images has returned True,
\* the PDF written has one RGB page per valid image of the list and no other
\* page, in the order of the list, and it was written once; when it has
\* returned False there is no PDF; and with an output directory that can be
\* written it returns False exactly if the list is empty or holds no valid
\* image.
C17_MultiplePagesInOrder ==
    (op = "multiple" /\ cv_ret.returned /\ ~cv_closed) =>
        LET pdf == out_files[0] IN
        /\ cv_ret.value <=> pdf.exists
        /\ cv_ret.value =>
              /\ pdf.writes = 1
              /\ Len(pdf.pages) = Cardinality(ValidPositions)
              /\ \A k \in DOMAIN pdf.pages :
                    /\ pdf.pages[k].src \in ValidPositions
                    /\ pdf.pages[k].mode = "RGB"
              /\ \A k \in DOMAIN pdf.pages : \A l \in DOMAIN pdf.pages :
                    k < l => pdf.pages[k].src < pdf.pages[l].src
        /\ ~cv_ret.value => pdf = NoPdf
        /\ out.writable => (cv_ret.value <=> ValidPositions # {})
        /\ \A j \in DOMAIN image_paths : out_files[j] = NoPdf

\* a PDF of two pages was made of three images, the second being invalid
C17_Witness ==
    /\ op = "multiple"
    /\ cv_ret.returned
    /\ cv_ret.value
    /\ Len(image_paths) = 3
    /\ ValidPositions = {1, 3}
    /\ Len(out_files[0].pages) = 2

\* C18: the successive calls of convert_single_image on the same image and
\* output path, the image file being left as it is and the converter in use,
\* all return the same verdict, the PDF of an earlier call being overwritten
\* by a later one.
C18_SingleVerdictRepeats ==
    (op = "single" /\ ~cv_closed) =>
        /\ \A k \in DOMAIN verdicts : \A l \in DOMAIN verdicts :
              verdicts[k] = verdicts[l]
        /\ \A k \in DOMAIN verdicts :
              verdicts[k] <=> (ValidImage(image_paths[1]) /\ out.writable)

\* the second call has returned True and has written the PDF over the one of
\* the first call
C18_Witness ==
    /\ op = "single"
    /\ Len(verdicts) = 2
    /\ verdicts[2]
    /\ out_files[1].writes = 2

\* the conversion calls made for image j that have returned
CallsDoneOn(j) == {t \in DOMAIN cv_tasks : cv_tasks[t].image = j /\ cv_tasks[t].pc = "done"}

\* C19: on a converter in use, a conversion call on a path with no file, with
\* an unsupported extension or with a file that holds no image returns False
\* and writes no PDF, and it makes no other image fail: with an output
\* directory that can be written every call on a valid image returns True
\* with its PDF written, so that batch_convert returns with the PDFs of
\* exactly the valid images, those of the batch of an invalid image and of the
\* later batches included.
C19_OnlyTheBadImageFails ==
    (op \in {"single", "batch"} /\ ~cv_closed) =>
        /\ \A j \in DOMAIN image_paths : \A t \in CallsDoneOn(j) :
              /\ ~ValidImage(image_paths[j]) => ~cv_tasks[t].ok /\ ~Converted(j)
              /\ (ValidImage(image_paths[j]) /\ out.writable) =>
                    cv_tasks[t].ok /\ Converted(j)
        /\ (cv_ret.returned /\ out.writable) =>
              \A j \in DOMAIN image_paths : Converted(j) <=> ValidImage(image_paths[j])
        /\ (op = "single" /\ cv_ret.returned /\ ~ValidImage(image_paths[1])) =>
              ~cv_ret.value

\* batch_convert has returned: the first image of the first batch was invalid,
\* the second image of that batch and the image of the second batch have
\* their PDFs
C19_Witness ==
    /\ op = "batch"
    /\ cv_ret.returned
    /\ cv_batch_size = 2
    /\ Len(image_paths) = 3
    /\ ~ValidImage(image_paths[1])
    /\ ~Converted(1)
    /\ Converted(2)
    /\ Converted(3)

\* process_csv has left the conversion block
LeftConversion == pc_main \in {"cleanup", "returned", "aborted"}

\* C20: close() is called on the converter of process_csv only once it is
\* created and at most once; when process_csv has left the conversion block,
\* by its end, by the except branch or with an exception, close() has been
\* called exactly once and has returned; it returns only with no job left in
\* the worker pool; and no conversion call is made once close() is called.
C20_ClosedExactlyOnce ==
    /\ [](/\ converter.closes <= 1
          /\ converter.closes = 1 => converter.created
          /\ (converter.created /\ LeftConversion) =>
                converter.closes = 1 /\ converter.closed
          /\ (~converter.created /\ LeftConversion) => converter.closes = 0
          /\ converter.closed => converter.running = 0
          /\ converter.closed => converter.closes = 1)
    /\ [][converter.closes >= 1 => converter'.calls = converter.calls]_vars

\* process_csv was cancelled while it awaited a conversion: close() was
\* called once, waited for the job and returned, and process_csv left with the
\* exception
C20_Witness ==
    /\ pc_main = "aborted"
    /\ exc = "cancelled"
    /\ Len(converter.calls) >= 1
    /\ converter.closes = 1
    /\ converter.closed
    /\ converter.running = 0

\* the pages a document ends with, from the answers of the server for its own
\* row alone
OwnPages(d) ==
    IF HasPageIndex(file_data[d].url)
    THEN PagePaths(d, LeadingOk(d))
    ELSE IF ServerOk(d, 1) THEN PagePaths(d, 1) ELSE <<>>

\* the paths of the tasks of batch k that ended with one
PathsOfBatch(k) ==
    {tasks[t].result : t \in {u \in TasksOfBatch(k) : tasks[u].result # None}}

\* C21: a fetch that fails leaves its siblings alone.  No step changes two
\* tasks of a wave or a task that has finished; download_multiple returns only
\* when every task of its batch has finished and returns the path of each one
\* that ended with a path; process_csv leaves gather only when every document
\* task has finished, each with the pages its own row's answers give and its
\* own failure records, all of which reach all_errors.
C21_SiblingsUnaffected ==
    /\ [](/\ (bd_pc = "loop" /\ i >= 1) =>
                /\ \A t \in TasksOfBatch(i - 1) : tasks[t].pc = "done"
                /\ {downloaded_paths[k] : k \in DOMAIN downloaded_paths}
                      = PathsOfBatch(i - 1)
                /\ Len(downloaded_paths) = Cardinality(PathsOfBatch(i - 1))
          /\ (entry = "main" /\ pc_main \notin {"start", "gather"}) =>
                \A d \in DOMAIN docs :
                    /\ docs[d].pc = "done"
                    /\ docs[d].pages = OwnPages(d)
                    /\ Len(docs[d].errors) = Len(FailedFetchesOf(d))
                    /\ \A k \in DOMAIN docs[d].errors :
                          \E j \in DOMAIN all_errors : all_errors[j] = docs[d].errors[k]
                    /\ docs[d].pages # <<>> =>
                          BaseName(file_data[d].filename) \in DOMAIN all_pages)
    /\ [][/\ \A t \in DOMAIN tasks : \A u \in DOMAIN tasks \ {t} :
                tasks'[t] # tasks[t] => tasks'[u] = tasks[u]
          /\ \A t \in DOMAIN tasks : tasks[t].pc = "done" => tasks'[t] = tasks[t]
          /\ DOMAIN docs # {} =>
                /\ \A d \in DOMAIN docs : \A e \in DOMAIN docs \ {d} :
                      docs'[d] # docs[d] => docs'[e] = docs[e]
                /\ \A d \in DOMAIN docs : docs[d].pc = "done" => docs'[d] = docs[d]]_vars

\* the first document failed on its first page, the second one has its pages,
\* and the results loop has run
C21_Witness ==
    /\ pc_main = "downloaded"
    /\ Len(docs) = 2
    /\ docs[1].pages = <<>> /\ docs[1].errors # <<>>
    /\ docs[2].pages # <<>>
    /\ BaseName(file_data[2].filename) \in DOMAIN all_pages

\* C22: batch_download gives every URL of its input to one download() task and
\* to no other: a task is created only for a URL that has none yet, a task
\* issues its request once, from its creation, and is over for good when it
\* has finished, whatever its result; and every run of batch_download ends,
\* with one finished task per URL, in the order of the input.
C22_EachUrlFetchedOnce ==
    /\ [](/\ \A t \in DOMAIN tasks : \A u \in DOMAIN tasks :
                tasks[t].url = tasks[u].url => t = u
          /\ bd_pc = "done" =>
                /\ Len(tasks) = Len(urls)
                /\ \A t \in DOMAIN tasks :
                      tasks[t].url = urls[t] /\ tasks[t].pc = "done")
    /\ [][/\ \A t \in DOMAIN tasks' \ DOMAIN tasks :
                /\ tasks'[t].pc = "created"
                /\ \A u \in DOMAIN tasks : tasks[u].url # tasks'[t].url
          /\ \A t \in DOMAIN tasks :
                /\ tasks'[t].pc = "request" /\ tasks[t].pc # "request"
                      => tasks[t].pc = "created"
                /\ tasks[t].pc = "done" => tasks'[t] = tasks[t]]_vars
    /\ <>(bd_pc = "done")

\* a run in batches of 2 is over: 3 URLs, 3 tasks, the first download failed
C22_Witness ==
    /\ bd_pc = "done"
    /\ Len(urls) = 3 /\ batch_size = 2
    /\ Len(tasks) = 3
    /\ tasks[1].result = None
    /\ Len(all_downloaded) = 2

\* the paths of the tasks that ended with one
PathsOfTasks == {tasks[t].result : t \in {u \in DOMAIN tasks : tasks[u].result # None}}

\* C23 as stated: whatever callback download_multiple is given, none, one that
\* returns or one that raises, the call goes on to await every task and hands
\* back the path of each download that ended with one, as batch_download does
\* with its own callback.
C23_ProgressIsObservational ==
    /\ bd_pc # "callback_raised"
    /\ (/\ entry = "download_multiple" /\ bd_pc # "call" /\ completedQ = <<>>
        /\ \A t \in DOMAIN tasks : tasks[t].pc = "done") =>
          /\ bd_pc = "returned"
          /\ {downloaded_paths[k] : k \in DOMAIN downloaded_paths} = PathsOfTasks
    /\ bd_pc = "done" =>
          {all_downloaded[k] : k \in DOMAIN all_downloaded} = PathsOfTasks

\* C24 as stated: a CSV that cannot be read ends the run before any fetch with
\* False; an output directory that cannot be made, that of the downloads or
\* that of the PDFs, ends it with False too; and no failure of a fetch or of a
\* conversion keeps a run whose CSV had rows from going through to its return.
C24_OnlySystemicErrorsAbort ==
    /\ (entry = "main" /\ ~csv_readable /\ pc_main # "start") =>
          pc_main = "rejected" /\ ret = FALSE /\ docs = <<>>
    /\ (entry = "main" /\ csv_readable /\ file_data # <<>>) =>
          pc_main \notin {"rejected", "raised"}
    /\ pc_main = "returned" =>
          /\ (\A d \in DOMAIN docs :
                  /\ docs[d].pages = <<>>
                  /\ \E k \in DOMAIN docs[d].errors :
                        docs[d].errors[k].detail = "makedirs") => ret = FALSE
          /\ pdf_dir = "failed" => ret = FALSE

\* C25: the step of download() that finds the content type of a 2xx response
\* unrecognised logs its warning and goes on to the write of the body, never
\* to the end of the call; the warning is there exactly for the unrecognised
\* types, and a download that was warned about and ended with a path ended
\* with its final_path, as one without warning does.
C25_ContentTypeIsAdvisory ==
    /\ [](\A t \in DOMAIN tasks :
            /\ tasks[t].warned => ~ValidateImageContentType(headers.content_type)
            /\ tasks[t].pc = "write" =>
                  tasks[t].warned = ~ValidateImageContentType(headers.content_type)
            /\ (tasks[t].pc = "done" /\ tasks[t].result # None) =>
                  /\ tasks[t].warned = ~ValidateImageContentType(headers.content_type)
                  /\ tasks[t].result = FinalPathFor(output_path, tasks[t].url, headers))
    /\ [][\A t \in DOMAIN tasks :
            (tasks'[t].warned /\ ~tasks[t].warned) => tasks'[t].pc = "write"]_vars

\* a download whose response was text/html ended with the path it wrote to
C25_Witness ==
    /\ entry = "download"
    /\ headers.content_type = "text/html"
    /\ tasks[1].pc = "done"
    /\ tasks[1].warned
    /\ tasks[1].result = FinalPathFor(output_path, tasks[1].url, headers)

\* a file name download() can use as it is: not empty, with an extension
Usable(name) == name # NoName /\ name.ext # ""

\* the first usable one of: the file name of the headers, the basename of the
\* URL, the name made of the hash of the URL
NameByPriority(u, hs) ==
    LET named == ExtractFilenameFromHeaders(hs) IN
    IF named # <<>> /\ Usable(named[1]) THEN named[1]
    ELSE IF Usable(UrlName(u)) THEN UrlName(u)
    ELSE HashName(u, GetExtensionFromContentType(hs.content_type))

\* C26 as stated: a download() that ended with a path ended with output_path
\* when one was given, else with the file name of the headers, else with the
\* basename of the URL, and with the name made of the hash of the URL only
\* when neither is usable; and page N > 1 of a document is written to
\* <base>_page<N>.png, page 1 to <base>.png.
C26_FilenameByPriority ==
    /\ \A t \in DOMAIN tasks :
          (tasks[t].pc = "done" /\ tasks[t].result # None) =>
              tasks[t].result =
                  IF output_path # None THEN output_path
                  ELSE "out/" \o NameString(NameByPriority(tasks[t].url, headers))
    /\ \A d \in DOMAIN docs : \A k \in DOMAIN docs[d].pages :
          docs[d].pages[k] =
              OutputDir \o "/" \o BaseName(file_data[d].filename)
                  \o (IF k > 1 THEN "_page" \o ToString(k) ELSE "") \o ".png"

\* the paths download_file returned for its calls that succeeded
FetchedPathsOf(d) ==
    {OutputPath(file_data[d].filename, fetchLog[d][j].page) :
        j \in {k \in DOMAIN fetchLog[d] : fetchLog[d][k].ok}}
FetchedPaths == UNION {FetchedPathsOf(d) : d \in DOMAIN docs}

\* C27: the converter is made and a conversion called only when every
\* document task has finished, and no fetch is made from then on; every
\* conversion call is for a key of all_pages, and every path it is given was
\* returned by a download_file call that succeeded.
C27_ConversionAfterDownloads ==
    /\ [](/\ (converter.created \/ converter.calls # <<>>) =>
                \A d \in DOMAIN docs : docs[d].pc = "done"
          /\ \A c \in DOMAIN converter.calls :
                /\ converter.calls[c].key \in DOMAIN all_pages
                /\ \A k \in DOMAIN all_pages[converter.calls[c].key] :
                      all_pages[converter.calls[c].key][k] \in FetchedPaths)
    /\ [][converter.created => fetchLog' = fetchLog /\ docs' = docs]_vars

\* conversions were called for two documents, the first one after the fetch
\* of its second page had failed, the second one of several pages
C27_Witness ==
    /\ Len(docs) = 2
    /\ Len(converter.calls) = 2
    /\ converter.calls[1].op = "single"
    /\ converter.calls[2].op = "multiple"
    /\ \E j \in DOMAIN fetchLog[1] : ~fetchLog[1][j].ok

\* process_csv is over: it returned or left with an exception
ProcessCsvOver == pc_main \in {"rejected", "returned", "aborted"}

\* C28: the downloads directory is removed only by a process_csv that went
\* through to its return with keep_downloads false, the conversion enabled,
\* pdf_dir made, at least one conversion called and every conversion called
\* returning True; a run in which a conversion returned False, the conversion
\* block raised, the conversion was disabled or keep_downloads was true ends
\* with the downloads in place.
C28_CleanupOnlyAfterFullSuccess ==
    /\ downloads = "removed" =>
          /\ pc_main = "returned"
          /\ ~keep_downloads
          /\ convert_to_pdf
          /\ pdf_dir = "made" /\ exc = ""
          /\ Len(conversion_results) > 0
          /\ Len(conversion_results) = Len(converter.calls)
          /\ \A k \in DOMAIN conversion_results : conversion_results[k]
    /\ (/\ ProcessCsvOver
        /\ \/ \E k \in DOMAIN conversion_results : ~conversion_results[k]
           \/ pdf_dir = "failed"
           \/ exc # ""
           \/ ~convert_to_pdf
           \/ keep_downloads) => downloads = "present"

\* the conversions of two documents returned True and the downloads are gone
C28_Witness ==
    /\ pc_main = "returned"
    /\ downloads = "removed"
    /\ Len(conversion_results) = 2
    /\ pdfs = DOMAIN all_pages

ConversionLoopOver ==
    /\ pdf_dir = "made" /\ exc = ""
    /\ pc_main \in {"finally", "closing", "cleanup", "returned"}

\* C30: the conversion calls of process_csv are for distinct keys of
\* all_pages, convert_single_image for a document of one page and
\* convert_multiple_images for one of more; every call that returned has its
\* verdict in conversion_results; and when the loop has run to its end there
\* has been one call for every key, whatever the verdicts of the calls before.
C30_OneAttemptPerDocument ==
    /\ \A c \in DOMAIN converter.calls : \A e \in DOMAIN converter.calls :
          converter.calls[c].key = converter.calls[e].key => c = e
    /\ \A c \in DOMAIN converter.calls :
          /\ converter.calls[c].key \in DOMAIN all_pages
          /\ converter.calls[c].op =
                IF Len(all_pages[converter.calls[c].key]) = 1 THEN "single"
                ELSE "multiple"
    /\ Len(conversion_results) <= Len(converter.calls)
    /\ Len(converter.calls) <= Len(conversion_results) + 1
    /\ ConversionLoopOver =>
          /\ {converter.calls[c].key : c \in DOMAIN converter.calls} = DOMAIN all_pages
          /\ Len(conversion_results) = Len(converter.calls)

\* the conversion of the first document returned False and the second
\* document, of several pages, had its call
C30_Witness ==
    /\ ConversionLoopOver
    /\ conversion_results = <<FALSE, TRUE>>
    /\ converter.calls[1].op = "single"
    /\ converter.calls[2].op = "multiple"

\* the document identifier of row d: the key of all_pages and the base name of
\* the paths download_file writes for it
Identifier(d) == BaseName(file_data[d].filename)

\* the rows of identifier key that came back with pages
RowsOf(key) == {d \in RowsWithPages : Identifier(d) = key}

\* the results loop of process_csv has run
ResultsRead == pc_main \notin {"idle", "flush", "flushed", "start", "rejected",
                               "gather", "raised"}

\* C31: rows of the same identifier write the same destination paths, their
\* tasks are not kept apart, and after the results loop all_pages has for that
\* identifier the one entry, holding the pages of the last row in CSV order
\* among those that came back with pages, whichever task ended first.
C31_LastRowWins ==
    /\ \A d \in DOMAIN docs : \A e \in DOMAIN docs :
          Identifier(d) = Identifier(e) =>
              \A p \in 1..max_pages :
                  OutputPath(file_data[d].filename, p)
                      = OutputPath(file_data[e].filename, p)
    /\ ResultsRead =>
          \A key \in DOMAIN all_pages :
              /\ RowsOf(key) # {}
              /\ \E d \in RowsOf(key) :
                    /\ \A e \in RowsOf(key) : e <= d
                    /\ all_pages[key] = docs[d].pages

\* two rows of the same identifier both wrote the path of page 1, the second
\* ended while the first was still probing and came back with fewer pages,
\* and all_pages has the pages of the second
C31_Witness ==
    /\ ResultsRead
    /\ Len(file_data) = 2
    /\ Identifier(1) = Identifier(2)
    /\ overtaken
    /\ Len(docs[1].pages) = 2
    /\ Len(docs[2].pages) = 1
    /\ docs[1].pages[1] = docs[2].pages[1]
    /\ all_pages[Identifier(1)] = docs[2].pages

\* the results download_multiple has awaited so far, over all batches
Awaited == Cardinality({t \in DOMAIN tasks : tasks[t].pc = "done"}) - Len(completedQ)

\* C32: in batch_download the counts logged by the successive progress
\* callbacks start at 1 and go up by exactly 1 with each result awaited, failed
\* downloads included, never pass len(urls), and the last callback of the last
\* batch logs len(urls).
C32_ProgressCountsEveryDownload ==
    entry = "downloader" =>
        /\ Len(progress) = Awaited
        /\ progress # <<>> => progress[1] = 1
        /\ \A k \in 2..Len(progress) : progress[k] = progress[k - 1] + 1
        /\ \A k \in 1..Len(progress) : progress[k] <= Len(urls)
        /\ (bd_pc = "done" /\ urls # <<>>) => progress[Len(progress)] = Len(urls)

\* batch_download returned after a full batch and a shorter last one, a
\* download of the first batch having failed
C32_Witness ==
    /\ entry = "downloader"
    /\ bd_pc = "done"
    /\ Len(batches) >= 2
    /\ batch_size >= 2
    /\ Len(batches[Len(batches)]) < batch_size
    /\ \E t \in TasksOfBatch(0) : tasks[t].result = None
    /\ progress[Len(progress)] = Len(urls)

\* the documents being resolved: inside `async with semaphore`, one request of
\* download_file in flight each
Resolving == {d \in DOMAIN docs : docs[d].pc \in {"probing", "single"}}

\* C33: at most 10 documents are being resolved at any time, each holding one
\* slot of the limiter from its first request to the end of its probing; a
\* document has one fetch in flight, that of the page after the ones fetched,
\* so at most 10 fetches are in flight; and the slot is back when the
\* resolution has ended, with pages, with a failure or with an exception.
C33_AtMostTenDocuments ==
    (entry = "main" /\ pc_main \notin {"start", "rejected"}) =>
        /\ Cardinality(Resolving) <= DocLimit
        /\ sem_value = DocLimit - Cardinality(Resolving)
        /\ \A d \in Resolving :
              /\ Len(fetchLog[d]) = docs[d].page_num - 1
              /\ \A j \in 1..Len(fetchLog[d]) : fetchLog[d][j].page = j
        /\ (\A d \in DOMAIN docs : docs[d].pc \in {"done", "raised"}) =>
              sem_value = DocLimit

\* ten documents are being resolved and one waits for a slot, after a
\* document ended on a failure and gave its slot back
C33_Witness ==
    /\ Cardinality(Resolving) = DocLimit
    /\ sem_value = 0
    /\ \E d \in DOMAIN docs : docs[d].pc = "created"
    /\ \E d \in DOMAIN docs : docs[d].pc = "done" /\ docs[d].errors # <<>>

\* C34: within one document download_file gives distinct page indices distinct
\* destination paths, <base>.png for page 1 and <base>_page<N>.png for a page
\* N > 1, so the pages fetched for a document are files of their own.
C34_PagesHaveOwnPaths ==
    /\ \A d \in DOMAIN file_data : \A p \in 1..max_pages : \A q \in 1..max_pages :
          p # q => OutputPath(file_data[d].filename, p)
                       # OutputPath(file_data[d].filename, q)
    /\ \A d \in DOMAIN docs :
          LET pages == docs[d].pages
              stem == OutputDir \o "/" \o Identifier(d)
          IN
          /\ \A p \in DOMAIN pages : \A q \in DOMAIN pages :
                p # q => pages[p] # pages[q]
          /\ \A p \in DOMAIN pages :
                pages[p] = IF p = 1 THEN stem \o ".png"
                           ELSE stem \o "_page" \o ToString(p) \o ".png"

\* a document came back with three pages or more
C34_Witness ==
    \E d \in DOMAIN docs :
        /\ docs[d].pc = "done"
        /\ HasPageIndex(file_data[d].url)
        /\ Len(docs[d].pages) >= 3

\* download_multipages for row d run by itself from page page_num on, against
\* the answers of the server: the pages and the failure records it returns
RECURSIVE ProbeFrom(_, _, _, _)
ProbeFrom(d, page_num, pages, errors) ==
    LET page_url == PageUrl(file_data[d].url, page_num)
        r == DownloadFile(page_url, file_data[d].filename, page_num,
                          AnswerFor(page_url))
        kept == IF KeepsPage(r.result) THEN Append(pages, r.result) ELSE pages
        recorded == errors \o r.error
    IN
    IF StopsProbing(r.error) \/ ~HasNextPage(page_num, max_pages)
    THEN [pages |-> kept, errors |-> recorded]
    ELSE ProbeFrom(d, page_num + 1, kept, recorded)

DownloadMultipages(d) ==
    IF HasPageIndex(file_data[d].url)
    THEN ProbeFrom(d, 1, <<>>, <<>>)
    ELSE LET r == DownloadFile(file_data[d].url, file_data[d].filename, 1,
                               AnswerFor(file_data[d].url))
         IN [pages |-> IF KeepsPage(r.result) THEN <<r.result>> ELSE <<>>,
             errors |-> r.error]

\* the failure records of rows 1..k, row after row
RECURSIVE ErrorsInRowOrder(_)
ErrorsInRowOrder(k) ==
    IF k = 0 THEN <<>> ELSE ErrorsInRowOrder(k - 1) \o DownloadMultipages(k).errors

\* no two rows have the same document identifier
DistinctIdentifiers ==
    \A d \in DOMAIN file_data : \A e \in DOMAIN file_data :
        d # e => Identifier(d) # Identifier(e)

\* C35: when no two rows share an identifier, the page set and the error
\* records process_csv has after its results loop are what the rows give when
\* each is resolved by itself, the error records row after row in CSV order:
\* they depend on the rows and on the answers of the server alone, not on which
\* task ended first.
C35_OutcomeIndependentOfSchedule ==
    (ResultsRead /\ DistinctIdentifiers) =>
        /\ all_errors = ErrorsInRowOrder(Len(file_data))
        /\ DOMAIN all_pages =
              {Identifier(d) : d \in {e \in DOMAIN file_data :
                                         DownloadMultipages(e).pages # <<>>}}
        /\ \A d \in DOMAIN file_data :
              DownloadMultipages(d).pages # <<>> =>
                  all_pages[Identifier(d)] = DownloadMultipages(d).pages

\* the second of two rows of different identifiers ended while the first was
\* still probing, both left an error record and the first has pages
C35_Witness ==
    /\ ResultsRead
    /\ Len(file_data) = 2
    /\ DistinctIdentifiers
    /\ overtaken
    /\ docs[1].errors # <<>>
    /\ docs[2].errors # <<>>
    /\ docs[1].pages # <<>>
    /\ Len(all_errors) = 2

\* C37: once close() has been called on a converter, a call of
\* convert_single_image or convert_multiple_images returns False, whatever the
\* image: no step of it writes a PDF or makes the output directory, and the
\* exception of the worker pool stays inside the call.
C37_ClosedConverterReturnsFalse ==
    [][(cv_closed /\ op \in {"single", "multiple"}) =>
          /\ out_files' = out_files
          /\ out' = out
          /\ (cv_ret'.returned /\ ~cv_ret.returned) => ~cv_ret'.value
          /\ \A t \in DOMAIN cv_tasks' : cv_tasks'[t].pc \in {"created", "done"}]_vars

\* convert_single_image returned True and wrote the PDF, close() was called,
\* and the call made then returned False and left the PDF as it was
C37_Witness ==
    /\ op = "single"
    /\ cv_closed
    /\ Len(verdicts) = 2
    /\ verdicts[1]
    /\ ~verdicts[2]
    /\ cv_ret.returned
    /\ out_files[1].writes = 1

\* C36: process_csv_and_download returns False when no file was downloaded;
\* True, the converter not called, when every downloaded file is a .pdf; else
\* it calls the conversion step chosen by `combine` once, on the files that
\* are not .pdf, and returns True exactly if that step reported success; and
\* it always returns: no exception leaves it.
C36_VerdictOfProcessCsvAndDownload ==
    /\ pcd_pc # "raised"
    /\ pcd_ret.returned =>
          LET images == ImageFilesOf(downloaded_files) IN
          /\ downloaded_files = <<>> => ~pcd_ret.value /\ converter_calls = <<>>
          /\ (downloaded_files # <<>> /\ images = <<>>) =>
                pcd_ret.value /\ converter_calls = <<>>
          /\ images # <<>> =>
                /\ Len(converter_calls) = 1
                /\ converter_calls[1].method =
                      (IF pcd_args.combine THEN "convert_multiple_images"
                       ELSE "batch_convert")
                /\ converter_calls[1].images = images
                /\ pcd_ret.value <=> converter_calls[1].answer = "True"

\* a .PDF and a .png were downloaded, the .png alone went to batch_convert,
\* which reported success, and True was returned
C36_Witness ==
    /\ pcd_ret.returned
    /\ pcd_ret.value
    /\ downloaded_files = <<".PDF", ".png">>
    /\ Len(converter_calls) = 1
    /\ converter_calls[1].method = "batch_convert"
    /\ converter_calls[1].images = <<".png">>
    /\ converter_calls[1].answer = "True"

====
